---- MODULE Spec2Model ----
(***************************************************************************)
(* CodeReviewerPro: the review orchestration engine.                       *)
(*                                                                         *)
(* GeminiReviewer (geminiReviewer.js, two revisions: src/unnamed/part_001  *)
(* and src/unnamed/part_002) drives one conversation per file: initial     *)
(* prompt, tool-call turns, final text, parseReview.  extension.js (three  *)
(* revisions: src/unnamed/part_000 lines 1-740 and 741-1422, and           *)
(* src/src/extension.js) drives single-file and batch reviews, prompts     *)
(* for fixes and applies them.                                             *)
(*                                                                         *)
(* A JavaScript string is modelled as a sequence of one-character strings. *)
(* An await is a state; an action is the continuation that runs from one   *)
(* await to the next.                                                      *)
(***************************************************************************)
EXTENDS Integers, Sequences, FiniteSets, TLC

(***************************************************************************)
(* Bounds of the model                                                     *)
(***************************************************************************)
\* largest number of files a scanned batch holds
MaxFiles == 3
\* largest number of tool calls the model requests in one response of a
\* single-file review
MaxCalls == 2
\* largest number of tool calls the model requests in one response of a
\* batch review
MaxBatchCalls == 1

(***************************************************************************)
(* Strings                                                                 *)
(***************************************************************************)
UpperCase == <<"A", "B", "C", "D", "E", "F", "G", "H", "I", "J", "K", "L", "M", "N", "O", "P", "Q", "R", "S", "T", "U", "V", "W", "X", "Y", "Z">>
LowerCase == <<"a", "b", "c", "d", "e", "f", "g", "h", "i", "j", "k", "l", "m", "n", "o", "p", "q", "r", "s", "t", "u", "v", "w", "x", "y", "z">>

\* String.prototype.toLowerCase on one character
LowerChar(c) ==
    IF \E k \in 1..Len(UpperCase) : UpperCase[k] = c
    THEN LowerCase[CHOOSE k \in 1..Len(UpperCase) : UpperCase[k] = c]
    ELSE c

\* String.prototype.toLowerCase
ToLowerCase(s) == [k \in 1..Len(s) |-> LowerChar(s[k])]

\* the characters String.prototype.trim removes
WhiteSpace == {" ", "\t", "\n", "\r"}

RECURSIVE TrimStart(_)
TrimStart(s) ==
    IF s # <<>> /\ Head(s) \in WhiteSpace THEN TrimStart(Tail(s)) ELSE s

RECURSIVE TrimEnd(_)
TrimEnd(s) ==
    IF s # <<>> /\ s[Len(s)] \in WhiteSpace
    THEN TrimEnd(SubSeq(s, 1, Len(s) - 1))
    ELSE s

\* String.prototype.trim
Trim(s) == TrimEnd(TrimStart(s))

\* String.prototype.startsWith
StartsWith(s, p) == Len(p) <= Len(s) /\ SubSeq(s, 1, Len(p)) = p

\* String.prototype.includes
Includes(s, p) ==
    \E k \in 0..(Len(s) - Len(p)) : SubSeq(s, k + 1, k + Len(p)) = p

\* String.prototype.substring(0, n)
Substring0(s, n) == SubSeq(s, 1, IF Len(s) < n THEN Len(s) ELSE n)

\* the position of the j-th line feed of s; 0 for j = 0 and Len(s) + 1 past
\* the last one
SplitLines(s, j) ==
    LET nl == { k \in 1..Len(s) : s[k] = "\n" }
    IN  IF j = 0 THEN 0
        ELSE IF j > Cardinality(nl) THEN Len(s) + 1
        ELSE CHOOSE p \in nl : Cardinality({ q \in nl : q < p }) = j - 1

\* String.prototype.split('\n'): always at least one line
Split(s) ==
    LET n == Cardinality({ k \in 1..Len(s) : s[k] = "\n" }) + 1
    IN  [j \in 1..n |-> SubSeq(s, SplitLines(s, j - 1) + 1, SplitLines(s, j) - 1)]

(***************************************************************************)
(* parseReview                                                             *)
(***************************************************************************)
kwOverallAssessment == <<"o", "v", "e", "r", "a", "l", "l", " ", "a", "s", "s", "e", "s", "s", "m", "e", "n", "t">>
kwSummary == <<"s", "u", "m", "m", "a", "r", "y">>
kwOverallColon == <<"o", "v", "e", "r", "a", "l", "l", ":">>
kwIssuesFound == <<"i", "s", "s", "u", "e", "s", " ", "f", "o", "u", "n", "d">>
kwIssuesColon == <<"i", "s", "s", "u", "e", "s", ":">>
kwBugs == <<"b", "u", "g", "s">>
kwProblems == <<"p", "r", "o", "b", "l", "e", "m", "s">>
kwSuggestions == <<"s", "u", "g", "g", "e", "s", "t", "i", "o", "n", "s">>
kwImprovements == <<"i", "m", "p", "r", "o", "v", "e", "m", "e", "n", "t", "s">>
kwSuggestion == <<"s", "u", "g", "g", "e", "s", "t", "i", "o", "n">>
kwCanAutoFix == <<"c", "a", "n", " ", "a", "u", "t", "o", "-", "f", "i", "x">>
kwAutomaticallyFix == <<"a", "u", "t", "o", "m", "a", "t", "i", "c", "a", "l", "l", "y", " ", "f", "i", "x">>
kwYes == <<"y", "e", "s">>
kwTrue == <<"t", "r", "u", "e">>
kwStars == <<"*", "*">>

\* the characters of the 200-character fallback of the summary
SummaryFallbackLen == 200

\* the review object parseReview starts from
EmptyReview(reviewText) ==
    [summary |-> <<>>, issues |-> <<>>, suggestions |-> <<>>,
     canAutoFix |-> FALSE, rawText |-> reviewText]

\* part_001: the classification of one trimmed, lower-cased line
LineKind(lower) ==
    IF Includes(lower, kwOverallAssessment) \/ Includes(lower, kwSummary)
       \/ StartsWith(lower, kwOverallColon) THEN "summary"
    ELSE IF Includes(lower, kwIssuesFound) \/ Includes(lower, kwIssuesColon)
       \/ StartsWith(lower, kwBugs) THEN "issues"
    ELSE IF Includes(lower, kwSuggestions) \/ Includes(lower, kwImprovements)
       \/ StartsWith(lower, kwSuggestion) THEN "suggestions"
    ELSE IF Includes(lower, kwCanAutoFix) \/ Includes(lower, kwAutomaticallyFix)
       THEN "marker"
    ELSE "content"

\* an affirmative auto-fix marker line
Affirmative(lower) == Includes(lower, kwYes) \/ Includes(lower, kwTrue)

\* one iteration that classifies and stores the line as received, untrimmed
ParseLineNoTrim(st, rawLine) ==
    LET line  == rawLine
        lower == ToLowerCase(line)
        kind  == LineKind(lower)
        r     == st.review
    IN  IF line = <<>> THEN st
        ELSE IF kind \in {"summary", "issues", "suggestions"}
             THEN [st EXCEPT !.currentSection = kind]
        ELSE IF kind = "marker"
             THEN IF Affirmative(lower)
                  THEN [st EXCEPT !.review.canAutoFix = TRUE]
                  ELSE st
        ELSE IF st.currentSection = "summary"
             THEN [st EXCEPT !.review.summary =
                      (IF r.summary # <<>> THEN r.summary \o <<" ">> ELSE <<>>) \o line]
        ELSE IF st.currentSection = "issues"
             THEN [st EXCEPT !.review.issues = Append(r.issues, line)]
        ELSE [st EXCEPT !.review.suggestions = Append(r.suggestions, line)]

\* one iteration that puts the line in front of the entries collected so far
ParseLinePrepends(st, rawLine) ==
    LET line  == Trim(rawLine)
        lower == ToLowerCase(line)
        kind  == LineKind(lower)
        r     == st.review
    IN  IF line = <<>> THEN st
        ELSE IF kind \in {"summary", "issues", "suggestions"}
             THEN [st EXCEPT !.currentSection = kind]
        ELSE IF kind = "marker"
             THEN IF Affirmative(lower)
                  THEN [st EXCEPT !.review.canAutoFix = TRUE]
                  ELSE st
        ELSE IF st.currentSection = "summary"
             THEN [st EXCEPT !.review.summary =
                      (IF r.summary # <<>> THEN r.summary \o <<" ">> ELSE <<>>) \o line]
        ELSE IF st.currentSection = "issues"
             THEN [st EXCEPT !.review.issues = <<line>> \o r.issues]
        ELSE [st EXCEPT !.review.suggestions = <<line>> \o r.suggestions]

\* part_001: one iteration of the for loop over the lines
ParseLine(st, rawLine) ==
    LET line  == Trim(rawLine)
        lower == ToLowerCase(line)
        kind  == LineKind(lower)
        r     == st.review
    IN  IF line = <<>> THEN st
        ELSE IF kind \in {"summary", "issues", "suggestions"}
             THEN [st EXCEPT !.currentSection = kind]
        ELSE IF kind = "marker"
             THEN IF Affirmative(lower)
                  THEN [st EXCEPT !.review.canAutoFix = TRUE]
                  ELSE st
        ELSE IF st.currentSection = "summary"
             THEN [st EXCEPT !.review.summary =
                      (IF r.summary # <<>> THEN r.summary \o <<" ">> ELSE <<>>) \o line]
        ELSE IF st.currentSection = "issues"
             THEN [st EXCEPT !.review.issues = Append(r.issues, line)]
        ELSE [st EXCEPT !.review.suggestions = Append(r.suggestions, line)]

RECURSIVE ParseLines(_, _)
ParseLines(st, lines) ==
    IF lines = <<>> THEN st
    ELSE ParseLines(ParseLine(st, Head(lines)), Tail(lines))

\* parseReview that returns the accumulated summary and never falls back
parseReviewNoFallback(reviewText) ==
    LET st == ParseLines([currentSection |-> "summary", review |-> EmptyReview(reviewText)],
                         Split(reviewText))
    IN  [st.review EXCEPT !.summary = Trim(st.review.summary)]

\* part_001: GeminiReviewer.parseReview
parseReview(reviewText) ==
    LET st == ParseLines([currentSection |-> "summary", review |-> EmptyReview(reviewText)],
                         Split(reviewText))
        s  == Trim(st.review.summary)
    IN  [st.review EXCEPT !.summary =
            IF s # <<>> THEN s ELSE Trim(Substring0(reviewText, SummaryFallbackLen))]

\* part_002: one iteration of lines.forEach
ParseLineOld(st, line) ==
    LET lower == ToLowerCase(line)
        sec   == IF Includes(lower, kwOverallAssessment) \/ Includes(lower, kwSummary)
                     THEN "summary"
                 ELSE IF Includes(lower, kwIssuesFound) \/ Includes(lower, kwProblems)
                     THEN "issues"
                 ELSE IF Includes(lower, kwSuggestions) \/ Includes(lower, kwImprovements)
                     THEN "suggestions"
                 ELSE st.currentSection
        isMarker == /\ ~(Includes(lower, kwOverallAssessment) \/ Includes(lower, kwSummary))
                    /\ ~(Includes(lower, kwIssuesFound) \/ Includes(lower, kwProblems))
                    /\ ~(Includes(lower, kwSuggestions) \/ Includes(lower, kwImprovements))
                    /\ (Includes(lower, kwCanAutoFix) \/ Includes(lower, kwAutomaticallyFix))
        st1   == [st EXCEPT !.currentSection = sec,
                            !.review.canAutoFix =
                                IF isMarker THEN Affirmative(lower) ELSE @]
        r     == st1.review
    IN  IF Trim(line) # <<>> /\ ~Includes(lower, kwStars) /\ sec # "summary"
        THEN IF sec = "issues"
             THEN [st1 EXCEPT !.review.issues = Append(r.issues, Trim(line))]
             ELSE [st1 EXCEPT !.review.suggestions = Append(r.suggestions, Trim(line))]
        ELSE IF sec = "summary" /\ Trim(line) # <<>>
             THEN [st1 EXCEPT !.review.summary = r.summary \o Trim(line) \o <<" ">>]
        ELSE st1

RECURSIVE ParseLinesOld(_, _)
ParseLinesOld(st, lines) ==
    IF lines = <<>> THEN st
    ELSE ParseLinesOld(ParseLineOld(st, Head(lines)), Tail(lines))

\* part_002: GeminiReviewer.parseReview
parseReviewOld(reviewText) ==
    LET st == ParseLinesOld([currentSection |-> "summary", review |-> EmptyReview(reviewText)],
                            Split(reviewText))
        s  == Trim(st.review.summary)
    IN  [st.review EXCEPT !.summary =
            IF s # <<>> THEN s ELSE Substring0(reviewText, SummaryFallbackLen)]

(***************************************************************************)
(* generateFixedCode                                                       *)
(***************************************************************************)
\* the fence marker: three grave accents (U+0060), a character that a string
\* of this language cannot hold
Fence == <<"U+0060", "U+0060", "U+0060">>

\* String.prototype.replace(/```[letters]*\n?/g, ''), the line feed being
\* part of the pattern iff eatNewline
RECURSIVE ReplaceFences(_, _, _)
ReplaceFences(s, letters, eatNewline) ==
    IF s = <<>> THEN <<>>
    ELSE IF StartsWith(s, Fence)
    THEN LET rest == SubSeq(s, Len(Fence) + 1, Len(s))
             n    == CHOOSE k \in 0..Len(rest) :
                        /\ \A j \in 1..k : rest[j] \in letters
                        /\ k = Len(rest) \/ rest[k + 1] \notin letters
             tl   == SubSeq(rest, n + 1, Len(rest))
         IN  ReplaceFences(IF eatNewline /\ tl # <<>> /\ Head(tl) = "\n"
                           THEN Tail(tl) ELSE tl,
                           letters, eatNewline)
    ELSE <<Head(s)>> \o ReplaceFences(Tail(s), letters, eatNewline)

\* clean-up that removes a fence only at the very start of the text
generateFixedCodeLeadingOnly(text) ==
    Trim(IF StartsWith(text, Fence)
         THEN ReplaceFences(SubSeq(text, 1, Len(Fence)), {}, FALSE)
                  \o SubSeq(text, Len(Fence) + 1, Len(text))
         ELSE text)

\* part_001: generateFixedCode, from the response text to the returned code
generateFixedCode(text) ==
    LET anyCase == { LowerCase[k] : k \in 1..Len(LowerCase) }
                       \cup { UpperCase[k] : k \in 1..Len(UpperCase) }
    IN  Trim(ReplaceFences(ReplaceFences(text, anyCase, TRUE), {}, FALSE))

\* part_002: generateFixedCode, from the response text to the returned code
generateFixedCodeOld(text) ==
    Trim(ReplaceFences(text, { LowerCase[k] : k \in 1..Len(LowerCase) }, TRUE))

\* the response text "```js\nconst x=1;\n```"
FenceExample ==
    Fence \o <<"j", "s", "\n", "c", "o", "n", "s", "t", " ", "x", "=", "1", ";", "\n">>
          \o Fence

\* the final texts the model answers with
TextPlain == <<"L", "o", "o", "k", "s", " ", "f", "i", "n", "e", ".">>
TextMarkerYes == <<"C", "a", "n", " ", "A", "u", "t", "o", "-", "F", "i", "x", ":", " ", "Y", "e", "s">>
TextMarkerNoSuggest == <<"C", "a", "n", " ", "A", "u", "t", "o", "-", "F", "i", "x", ":", " ", "N", "o", "\n", "S", "u", "g", "g", "e", "s", "t", "i", "o", "n", "s", ":", "\n", "r", "e", "m", "o", "v", "e", " ", "x">>
Texts == {TextPlain, TextMarkerYes, TextMarkerNoSuggest}

(***************************************************************************)
(* State                                                                   *)
(***************************************************************************)
VARIABLES
    ext,            \* extension revision: "full" (part_000) or "basic" (src/src/extension.js)
    rev,            \* reviewer revision: "new" (part_001) or "old" (part_002)
    mode,           \* "idle", "single" (reviewFile) or "batch" (reviewWorkspace / reviewPath)
    pc,             \* the await the run is suspended at
    nFiles,         \* files.length
    cursor,         \* i + 1 of the for loop; the file being processed
    reviewedCount,
    applyAll,
    currentReviewCancellation,  \* "null", "active" (the source of this run) or
                                \* "other" (the source of the overlapping run)
    cancelRequested,            \* token.isCancellationRequested || cts.token.isCancellationRequested
    reviewInProgress,           \* sidebarProvider.reviewInProgress
    iterations,     \* reviewCode: iterations
    sendCount,      \* reviewCode: chat.sendMessage calls of the current conversation
    functionCalls,  \* reviewCode: response.functionCalls of the latest response
    functionResponses,
    callIdx,        \* position of the for loop over functionCalls
    review,         \* what the latest reviewCode call returned
    reviewed,       \* files for which reviewCode returned a review
    skipLog,        \* files logged as skipped, in log order
    opened,         \* files for which openTextDocument resolved
    contacted,      \* files for which a review request was sent
    offered,        \* files for which a fix was offered or started
    displayed,      \* files whose review results were written to the output
    answers,        \* per file: the answer to the apply-fix prompt
    fixRequested,   \* files for which generateContent(fixPrompt) was sent
    fixFailed,      \* files whose generateContent(fixPrompt) threw
    fix,            \* generateFixedCode: text and fixedCode of the pending edit
    content,        \* per file: "orig" or "fixed"
    appliedLog,     \* batch: files with an 'Applied fixes to <file>' line in the output
    saved,          \* applyFixesToFile: the text its latest document.save() wrote;
                    \* <<>> while it has saved nothing
    reportedCount,  \* the count of the final report of a batch; -1 before the report
    cancelSeenAt,   \* the file at whose loop head the cancellation was seen; 0 if none
    secret,         \* context.secrets 'gemini-api-key': "undefined" or "key"
    model,          \* geminiReviewer.model: "null" or "set"
    otherRun,       \* a review command issued while this run is in progress:
                    \* "none", "running" or "done"
    chat,           \* the files whose turns the latest conversation object holds
    outcome,        \* how the latest reviewCode invocation ended: "none" (it
                    \* has not), "threw" (a send failed), "capped" (the last
                    \* response still requested tool calls) or "final"
    workspace,      \* the files below workspaceFolders[0], in the order a walk
                    \* meets them, each a path of names; <<>> where the scan is
                    \* reduced to the length of its result (nFiles)
    files           \* reviewWorkspace: the list the scan returned, likewise

loopVars == <<iterations, sendCount, functionCalls, functionResponses, callIdx, chat,
              outcome>>
histVars == <<review, reviewed, skipLog, opened, contacted, offered, displayed, answers, fixRequested,
              fixFailed, fix, content, appliedLog, saved>>
runVars  == <<ext, rev, workspace, files, mode, nFiles, secret, model, otherRun>>
vars == <<ext, rev, workspace, files, mode, pc, nFiles, cursor, reviewedCount, applyAll,
          currentReviewCancellation, cancelRequested, reviewInProgress, iterations,
          sendCount,
          functionCalls, functionResponses, callIdx, review, reviewed, skipLog, opened,
          contacted, offered, displayed, answers, fixRequested, fixFailed, fix, content, appliedLog, saved,
          reportedCount,
          cancelSeenAt, secret, model, otherRun, chat, outcome>>

Files == 1..MaxFiles

\* no fix is being generated or applied
NoFix == [text |-> <<>>, fixedCode |-> <<>>]

\* the locals of generateFixedCode once generateContent settled with text
FixSettles(text) ==
    [text |-> text,
     fixedCode |-> IF rev = "new" THEN generateFixedCode(text)
                   ELSE generateFixedCodeOld(text)]
\* reviewCode has not returned for the file
NoReview == [none |-> TRUE]
\* response.functionCalls is undefined
Absent == [defined |-> FALSE, list |-> <<>>]

\* the tool calls the model requests
ToolCalls ==
    { [name |-> "read_file", args |-> "exists"],
      [name |-> "read_file", args |-> "missing"],
      [name |-> "delete_file", args |-> "exists"] }

\* response.functionCalls: undefined or a list of calls (possibly empty)
CallLists(maxLen) == UNION { [1..k -> ToolCalls] : k \in 0..maxLen }
FunctionCallsValues ==
    {Absent} \cup
    { [defined |-> TRUE, list |-> l] :
        l \in CallLists(IF mode = "batch" THEN MaxBatchCalls ELSE MaxCalls) }

(***************************************************************************)
(* GeminiReviewer: tools and the tool-call loop                            *)
(***************************************************************************)
\* part_001: let maxIterations = 6
maxIterations == 6
\* part_002: let maxIterations = 5
maxIterationsOld == 5

\* The args of a call are "exists" (the path argument names something that
\* exists), "missing" (it names nothing), "noField" (the args object lacks
\* the argument) or "undefined" (the call carries no args object).

\* GeminiReviewer.readFile: fs.readFile succeeds on an existing path only;
\* every error, of an undefined path too, is caught
readFile(filePath) ==
    IF filePath = "exists"
    THEN [type |-> "object", success |-> TRUE, error |-> ""]
    ELSE [type |-> "object", success |-> FALSE, error |-> "Cannot read file"]

\* GeminiReviewer.listDirectory: fs.readdir inside try/catch
listDirectory(dirPath) ==
    IF dirPath = "exists"
    THEN [type |-> "object", success |-> TRUE, error |-> ""]
    ELSE [type |-> "object", success |-> FALSE, error |-> "Cannot list directory"]

\* GeminiReviewer.findFile: pattern.replace throws on an undefined pattern,
\* inside the try; part_001 walks a missing directory as an empty one,
\* part_002 fails on it
findFile(pattern) ==
    IF pattern = "exists" \/ (pattern = "missing" /\ rev = "new")
    THEN [type |-> "object", success |-> TRUE, error |-> ""]
    ELSE [type |-> "object", success |-> FALSE, error |-> "Cannot search files"]

\* the tools executeToolFunction knows
KnownTools == {"read_file", "list_directory", "find_file"}

\* args.file_path and the like: the argument of an args object
FieldOf(args) == IF args = "noField" THEN "undefined" ELSE args

\* executeToolFunction: the switch inside the try; reading a property of an
\* undefined args throws a TypeError
Dispatch(functionName, args) ==
    IF functionName \notin KnownTools
    THEN [type |-> "string", success |-> FALSE, error |-> "Error: Unknown function"]
    ELSE IF args = "undefined"
    THEN [type |-> "exception", success |-> FALSE, error |-> "TypeError"]
    ELSE IF functionName = "read_file" THEN readFile(FieldOf(args))
    ELSE IF functionName = "list_directory" THEN listDirectory(FieldOf(args))
    ELSE findFile(FieldOf(args))

\* mutant: the switch is not wrapped in try/catch
executeToolFunctionNoCatch(functionName, args) == Dispatch(functionName, args)

\* GeminiReviewer.executeToolFunction: the catch turns an exception into an
\* error string
executeToolFunction(functionName, args) ==
    LET r == Dispatch(functionName, args)
    IN  IF r.type = "exception"
        THEN [type |-> "string", success |-> FALSE, error |-> "Error executing"]
        ELSE r

\* mutant: a call that repeats an answered call of the turn gets no result
PushResponseDedup(responses, call, functionResult) ==
    IF \E k \in 1..Len(responses) :
          responses[k] = [name |-> call.name, result |-> functionResult]
    THEN responses
    ELSE Append(responses, [name |-> call.name, result |-> functionResult])

\* mutant: a failed tool call contributes no result
PushResponseDropFailed(responses, call, functionResult) ==
    IF functionResult.success
    THEN Append(responses, [name |-> call.name, result |-> functionResult])
    ELSE responses

\* reviewCode: functionResponses.push({ name, result })
PushResponse(responses, call, functionResult) ==
    Append(responses, [name |-> call.name, result |-> functionResult])

\* mutant: the iteration cap is not enforced
LoopContinuesNoCap(fc, iters) == fc.defined

\* reviewCode: the condition of the while loop; an empty array is truthy
LoopContinues(fc, iters) ==
    /\ fc.defined
    /\ iters < (IF rev = "new" THEN maxIterations ELSE maxIterationsOld)

\* the reviews of the final texts (parseReview of each text, evaluated once)
ParsedNew == [t \in Texts |-> parseReview(Trim(t))]
ParsedOld == [t \in Texts |-> parseReviewOld(t)]

\* reviewCode: the text of the final response, parsed
ParseFinal(text) ==
    IF rev = "new" THEN ParsedNew[text] ELSE ParsedOld[text]

(***************************************************************************)
(* extension.js: where a run continues                                     *)
(***************************************************************************)
\* mutant: the call site trusts the parser's flag alone
AutoFixAvailableFlagOnly(r) == r.canAutoFix

\* part_000: unified auto-fix detection (all call sites of part_000)
AutoFixAvailable(r) ==
    r.canAutoFix \/ Len(r.suggestions) > 0

\* src/src/extension.js reviewFile: if (review.canAutoFix)
AutoFixAvailableBasic(r) == r.canAutoFix

\* the decision of the call site that consumes the review
FixOffered(r) ==
    IF ext = "basic" THEN AutoFixAvailableBasic(r) ELSE AutoFixAvailable(r)

\* mutant: Apply All is not remembered, every fixable file prompts
NeedsPromptAlways(all) == TRUE

\* batch: if (!applyAll) the prompt is shown, else applyChoice = 'Apply Fixes';
\* reviewFile always prompts
NeedsPrompt(all) == mode = "single" \/ ~all

\* mutant: every answer to the prompt applies the fix
TakesApplyBranchAny(choice, all) == TRUE

\* batch: applyChoice === 'Apply Fixes' || applyAll; reviewFile: applyFix === 'Apply Fixes'
TakesApplyBranch(choice, all) ==
    choice = "Apply Fixes" \/ (mode = "batch" /\ all)

\* batch: else if (applyChoice === 'Apply All')
TakesApplyAllBranch(choice) == mode = "batch" /\ choice = "Apply All"

\* the run suspends at await p
Suspend(p) ==
    /\ pc' = p
    /\ UNCHANGED <<cursor, reviewedCount, currentReviewCancellation, reviewInProgress,
                   reportedCount>>

\* cleanup after withProgress, and the final report
Finish ==
    /\ pc' = "done"
    /\ currentReviewCancellation' = "null"
    /\ reviewInProgress' = FALSE
    /\ reportedCount' = IF mode = "batch" THEN reviewedCount ELSE reportedCount
    /\ UNCHANGED <<cursor, reviewedCount>>

\* mutant: the loop index does not advance
NextFileStays(counted) ==
    /\ pc' = "loopTop"
    /\ cursor' = cursor
    /\ reviewedCount' = IF counted THEN reviewedCount + 1 ELSE reviewedCount
    /\ UNCHANGED <<currentReviewCancellation, reviewInProgress, reportedCount>>

\* mutant: reviewedCount++ is reached also when the file threw
NextFileCountsAll(counted) ==
    /\ pc' = "loopTop"
    /\ cursor' = cursor + 1
    /\ reviewedCount' = reviewedCount + 1
    /\ UNCHANGED <<currentReviewCancellation, reviewInProgress, reportedCount>>

\* end of one iteration of the batch loop: i++
NextFile(counted) ==
    /\ pc' = "loopTop"
    /\ cursor' = cursor + 1
    /\ reviewedCount' = IF counted THEN reviewedCount + 1 ELSE reviewedCount
    /\ UNCHANGED <<currentReviewCancellation, reviewInProgress, reportedCount>>

\* mutant: the end of a file's fix ends the batch
FileEndsAborts == Finish

\* the file's review (and fix, if any) is over without an exception
FileEnds == IF mode = "batch" THEN NextFile(TRUE) ELSE Finish

\* reviewCode is left (return or throw): its locals are gone
ReviewCodeEnds(how) ==
    /\ iterations' = 0
    /\ sendCount' = 0
    /\ functionCalls' = Absent
    /\ functionResponses' = <<>>
    /\ callIdx' = 0
    /\ outcome' = how
    /\ UNCHANGED chat

\* mutant: the new conversation carries the turns of the previous one
startChatKeepsTurns(history) == chat

\* model.startChat({ tools, history }): the turns the new conversation holds
startChat(history) == history

\* reviewCode is entered: startChat with empty history, sendMessage(prompt)
ReviewCodeStarts ==
    /\ iterations' = 0
    /\ sendCount' = 1
    /\ functionCalls' = Absent
    /\ functionResponses' = <<>>
    /\ callIdx' = 0
    /\ chat' = startChat({}) \cup {cursor}
    /\ outcome' = "none"
    /\ contacted' = contacted \cup {cursor}
    /\ review' = NoReview
    /\ Suspend("initial")

\* reviewCode is called for the file at the cursor: without a model it throws
\* 'API key not set' before the conversation starts
ReviewCodeCalled ==
    IF model = "null"
    THEN /\ UNCHANGED <<contacted, review>>
         /\ UNCHANGED loopVars
         /\ IF mode = "batch"
            THEN skipLog' = Append(skipLog, cursor) /\ NextFile(FALSE)
            ELSE UNCHANGED skipLog /\ Finish
    ELSE ReviewCodeStarts /\ UNCHANGED skipLog

\* the entry point found no stored key: it warns and returns
MissingCredential ==
    /\ pc' = "done"
    /\ UNCHANGED <<mode, nFiles, cursor, currentReviewCancellation, reviewInProgress, model>>

\* mutant: reviewFile does not test the cancellation after reviewCode
AfterReviewNoCheck(r) ==
    /\ review' = r
    /\ reviewed' = reviewed \cup {cursor}
    /\ UNCHANGED skipLog
    /\ displayed' = displayed \cup {cursor}
    /\ IF FixOffered(r)
       THEN /\ offered' = offered \cup {cursor}
            /\ IF NeedsPrompt(applyAll) THEN Suspend("prompt") ELSE Suspend("fixKey")
       ELSE FileEnds /\ UNCHANGED offered

\* reviewCode returned review r to its caller
AfterReview(r) ==
    /\ review' = r
    /\ reviewed' = reviewed \cup {cursor}
    /\ UNCHANGED skipLog
    /\ IF mode = "single" /\ ext = "full" /\ cancelRequested
       THEN Finish /\ UNCHANGED <<offered, displayed>>
       ELSE /\ displayed' = displayed \cup {cursor}
            /\ IF FixOffered(r)
               THEN /\ offered' = offered \cup {cursor}
                    /\ IF NeedsPrompt(applyAll) THEN Suspend("prompt") ELSE Suspend("fixKey")
               ELSE FileEnds /\ UNCHANGED offered

\* reviewCode threw: the batch logs and skips the file, reviewFile reports
AfterReviewThrows ==
    /\ UNCHANGED <<review, reviewed, offered, displayed>>
    /\ IF mode = "batch"
       THEN skipLog' = Append(skipLog, cursor) /\ NextFile(FALSE)
       ELSE UNCHANGED skipLog /\ Finish

(***************************************************************************)
(* Actions                                                                 *)
(***************************************************************************)
Init ==
    /\ ext \in {"full", "basic"}
    /\ rev \in {"new", "old"}
    /\ mode = "idle"
    /\ pc = "idle"
    /\ nFiles = 0
    /\ cursor = 0
    /\ reviewedCount = 0
    /\ applyAll = FALSE
    /\ currentReviewCancellation = "null"
    /\ cancelRequested = FALSE
    /\ reviewInProgress = FALSE
    /\ iterations = 0
    /\ sendCount = 0
    /\ functionCalls = Absent
    /\ functionResponses = <<>>
    /\ callIdx = 0
    /\ review = NoReview
    /\ reviewed = {}
    /\ skipLog = <<>>
    /\ opened = {}
    /\ contacted = {}
    /\ offered = {}
    /\ displayed = {}
    /\ answers = [f \in Files |-> "none"]
    /\ fixRequested = {}
    /\ fixFailed = {}
    /\ fix = NoFix
    /\ workspace = <<>>
    /\ files = <<>>
    /\ content = [f \in Files |-> "orig"]
    /\ appliedLog = {}
    /\ saved = <<>>
    /\ reportedCount = -1
    /\ cancelSeenAt = 0
    /\ secret \in {"undefined", "key"}
    /\ model = "null"
    /\ otherRun = "none"
    /\ chat = {}
    /\ outcome = "none"

\* the setApiKey command between two runs: '' deletes the stored key and
\* leaves the reviewer's model as it is, a key is stored and given to the
\* reviewer
setApiKeyCommand ==
    /\ pc = "idle"
    /\ \E apiKey \in {"", "key"} :
        IF apiKey = ""
        THEN ext = "full" /\ secret' = "undefined" /\ UNCHANGED model
        ELSE secret' = "key" /\ model' = "set"
    /\ UNCHANGED <<ext, rev, workspace, files, otherRun, mode, nFiles, pc, cursor, reviewedCount, applyAll,
                   currentReviewCancellation, cancelRequested, reviewInProgress,
                   reportedCount, cancelSeenAt>>
    /\ UNCHANGED loopVars
    /\ UNCHANGED histVars

\* reviewWorkspace, up to the for loop
StartBatch ==
    /\ pc = "idle"
    /\ ext = "full"
    /\ IF secret = "undefined"
       THEN MissingCredential
       ELSE /\ mode' = "batch"
            /\ model' = "set"
            /\ \E n \in 1..MaxFiles : nFiles' = n
            /\ pc' = "loopTop"
            /\ cursor' = 1
            /\ currentReviewCancellation' = "active"
            /\ reviewInProgress' = TRUE
    /\ UNCHANGED <<ext, rev, workspace, files, otherRun, secret, reviewedCount, applyAll, cancelRequested,
                   reportedCount, cancelSeenAt>>
    /\ UNCHANGED loopVars
    /\ UNCHANGED histVars

\* reviewPath on a directory, up to the for loop: the stored key is not read
StartPathDirectory ==
    /\ pc = "idle"
    /\ ext = "full"
    /\ mode' = "batch"
    /\ \E n \in 1..MaxFiles : nFiles' = n
    /\ pc' = "loopTop"
    /\ cursor' = 1
    /\ currentReviewCancellation' = "active"
    /\ reviewInProgress' = TRUE
    /\ UNCHANGED <<ext, rev, workspace, files, otherRun, secret, model, reviewedCount, applyAll, cancelRequested,
                   reportedCount, cancelSeenAt>>
    /\ UNCHANGED loopVars
    /\ UNCHANGED histVars

\* mutant: the cancellation is logged at the loop head but the loop goes on
LoopTopNoBreak ==
    /\ mode = "batch" /\ pc = "loopTop"
    /\ IF cursor > nFiles
       THEN Finish /\ UNCHANGED cancelSeenAt
       ELSE IF cancelRequested
       THEN Suspend("open") /\ cancelSeenAt' = cursor
       ELSE Suspend("open") /\ UNCHANGED cancelSeenAt
    /\ UNCHANGED <<applyAll, cancelRequested>>
    /\ UNCHANGED runVars
    /\ UNCHANGED loopVars
    /\ UNCHANGED histVars

\* the head of the batch loop: bound check and first cancellation check
LoopTop ==
    /\ mode = "batch" /\ pc = "loopTop"
    /\ IF cursor > nFiles
       THEN Finish /\ UNCHANGED cancelSeenAt
       ELSE IF cancelRequested
       THEN Finish /\ cancelSeenAt' = cursor
       ELSE Suspend("open") /\ UNCHANGED cancelSeenAt
    /\ UNCHANGED <<applyAll, cancelRequested>>
    /\ UNCHANGED runVars
    /\ UNCHANGED loopVars
    /\ UNCHANGED histVars

\* openTextDocument settles; second cancellation check; reviewCode is called
OpenDocument ==
    /\ mode = "batch" /\ pc = "open"
    /\ \E ok \in BOOLEAN :
        IF ~ok
        THEN /\ skipLog' = Append(skipLog, cursor)
             /\ NextFile(FALSE)
             /\ UNCHANGED <<opened, contacted, review>>
             /\ UNCHANGED loopVars
        ELSE /\ opened' = opened \cup {cursor}
             /\ IF cancelRequested
                THEN /\ Finish
                     /\ UNCHANGED <<contacted, review, skipLog>>
                     /\ UNCHANGED loopVars
                ELSE ReviewCodeCalled
    /\ UNCHANGED <<applyAll, cancelRequested, cancelSeenAt>>
    /\ UNCHANGED runVars
    /\ UNCHANGED <<reviewed, offered, displayed, answers, fixRequested, fixFailed, fix, content, appliedLog, saved>>

\* reviewFile up to withProgress: the stored key is read first
reviewFile ==
    /\ IF secret = "undefined"
       THEN MissingCredential
       ELSE /\ mode' = "single"
            /\ model' = "set"
            /\ nFiles' = 1
            /\ cursor' = 1
            /\ pc' = "begin"
            /\ currentReviewCancellation' = IF ext = "full" THEN "active" ELSE "null"
            /\ reviewInProgress' = (ext = "full")
    /\ UNCHANGED <<ext, rev, workspace, files, otherRun, secret, reviewedCount, applyAll, cancelRequested,
                   reportedCount, cancelSeenAt>>
    /\ UNCHANGED loopVars
    /\ UNCHANGED <<review, reviewed, skipLog, contacted, offered, displayed, answers, fixRequested,
                   fixFailed, fix, content, appliedLog, saved>>

\* reviewCurrentFile: reviewFile on the document of the active editor
StartSingle ==
    /\ pc = "idle"
    /\ reviewFile
    /\ UNCHANGED opened

\* reviewPath on a file: the document is opened, then reviewFile is called
StartPathFile ==
    /\ pc = "idle"
    /\ ext = "full"
    /\ opened' = {1}
    /\ reviewFile

\* reviewFile: the progress task starts; cancellation check; reviewCode is called
BeginSingle ==
    /\ mode = "single" /\ pc = "begin"
    /\ IF ext = "full" /\ cancelRequested
       THEN Finish /\ UNCHANGED <<contacted, review, skipLog>> /\ UNCHANGED loopVars
       ELSE ReviewCodeCalled
    /\ UNCHANGED <<applyAll, cancelRequested, cancelSeenAt>>
    /\ UNCHANGED runVars
    /\ UNCHANGED <<reviewed, opened, offered, displayed, answers, fixRequested, fixFailed, fix,
                   content, appliedLog, saved>>

\* mutant: a failed send is sent again
SendFailsRetries ==
    /\ sendCount' = sendCount + 1
    /\ outcome' = "threw"
    /\ Suspend(pc)
    /\ UNCHANGED <<iterations, functionCalls, functionResponses, callIdx, chat>>
    /\ UNCHANGED <<review, reviewed, skipLog, offered, displayed>>

\* reviewCode: chat.sendMessage rejects; the catch logs and rethrows
SendFails ==
    /\ AfterReviewThrows
    /\ ReviewCodeEnds("threw")

\* the response requests at least one tool call
HasCalls(fc) == fc.defined /\ Len(fc.list) > 0

\* mutant: reviewCode throws when the cap cuts off pending tool calls
LoopExitsThrowsAtCap(fc, text) ==
    IF HasCalls(fc)
    THEN ReviewCodeEnds("capped") /\ AfterReviewThrows
    ELSE ReviewCodeEnds("final") /\ AfterReview(ParseFinal(text))

\* reviewCode: the while loop is left with response fc; its text is parsed
\* and returned, the calls it may still request are not executed
LoopExits(fc, text) ==
    /\ ReviewCodeEnds(IF HasCalls(fc) THEN "capped" ELSE "final")
    /\ AfterReview(ParseFinal(text))

\* chat.sendMessage settles: transport error, more tool calls, or the final text
ModelResponds ==
    /\ pc \in {"initial", "followup"}
    /\ \/ SendFails
       \/ \E fc \in FunctionCallsValues :
            /\ LoopContinues(fc, iterations)
            /\ iterations' = iterations + 1
            /\ functionCalls' = fc
            /\ functionResponses' = <<>>
            /\ IF Len(fc.list) = 0
               THEN sendCount' = sendCount + 1 /\ callIdx' = 0 /\ Suspend("followup")
               ELSE sendCount' = sendCount /\ callIdx' = 1 /\ Suspend("tool")
            /\ UNCHANGED <<review, reviewed, skipLog, offered, displayed, chat, outcome>>
       \/ \E fc \in FunctionCallsValues :
            /\ ~LoopContinues(fc, iterations)
            /\ \E text \in Texts : LoopExits(fc, text)
    /\ UNCHANGED <<applyAll, cancelRequested, cancelSeenAt>>
    /\ UNCHANGED runVars
    /\ UNCHANGED <<opened, contacted, answers, fixRequested, fixFailed, fix, content, appliedLog, saved>>

\* executeToolFunction settles for call callIdx; after the last call the
\* results are sent back
ExecuteTool ==
    /\ pc = "tool"
    /\ LET call == functionCalls.list[callIdx]
       IN  functionResponses' =
              PushResponse(functionResponses, call, executeToolFunction(call.name, call.args))
    /\ IF callIdx = Len(functionCalls.list)
       THEN sendCount' = sendCount + 1 /\ callIdx' = 0 /\ Suspend("followup")
       ELSE sendCount' = sendCount /\ callIdx' = callIdx + 1 /\ Suspend("tool")
    /\ UNCHANGED <<iterations, functionCalls, chat, outcome>>
    /\ UNCHANGED <<applyAll, cancelRequested, cancelSeenAt>>
    /\ UNCHANGED runVars
    /\ UNCHANGED histVars

\* the apply-fix prompt is answered or dismissed
PromptAnswered ==
    /\ pc = "prompt"
    /\ \E choice \in (IF mode = "batch"
                      THEN {"Apply Fixes", "Skip", "Apply All", "undefined"}
                      ELSE {"Apply Fixes", "View Only", "undefined"}) :
        /\ answers' = [answers EXCEPT ![cursor] = choice]
        /\ IF TakesApplyBranch(choice, applyAll)
           THEN Suspend("fixKey") /\ UNCHANGED applyAll
           ELSE IF TakesApplyAllBranch(choice)
           THEN Suspend("fixKey") /\ applyAll' = TRUE
           ELSE FileEnds /\ UNCHANGED applyAll
    /\ UNCHANGED <<cancelRequested, cancelSeenAt>>
    /\ UNCHANGED runVars
    /\ UNCHANGED loopVars
    /\ UNCHANGED <<review, reviewed, skipLog, opened, contacted, offered, displayed, fixRequested,
                   fixFailed, fix, content, appliedLog, saved>>

\* applyFixesToFile returns to its caller, after its edit or after its own
\* catch: the batch loops then append 'Applied fixes to <file>'
ApplyFixesReturns ==
    appliedLog' = IF mode = "batch" THEN appliedLog \cup {cursor} ELSE appliedLog

\* applyFixesToFile: secrets.get settles, generateFixedCode sends the fix prompt
SendFixRequest ==
    /\ pc = "fixKey"
    /\ fixRequested' = fixRequested \cup {cursor}
    /\ Suspend("fix")
    /\ UNCHANGED <<applyAll, cancelRequested, cancelSeenAt>>
    /\ UNCHANGED runVars
    /\ UNCHANGED loopVars
    /\ UNCHANGED <<review, reviewed, skipLog, opened, contacted, offered, displayed, answers,
                   fixFailed, fix, content, appliedLog, saved>>

\* generateContent settles with one of texts, or with an error, on which
\* applyFixesToFile logs and returns
FixSettlesWith(texts) ==
    /\ pc = "fix"
    /\ \E ok \in BOOLEAN :
        IF ok
        THEN /\ Suspend("edit")
             /\ UNCHANGED <<fixFailed, appliedLog, saved>>
             /\ \E text \in texts : fix' = FixSettles(text)
        ELSE /\ fixFailed' = fixFailed \cup {cursor}
             /\ UNCHANGED fix
             /\ ApplyFixesReturns
             /\ FileEnds
    /\ UNCHANGED <<applyAll, cancelRequested, cancelSeenAt>>
    /\ UNCHANGED runVars
    /\ UNCHANGED loopVars
    /\ UNCHANGED <<review, reviewed, skipLog, opened, contacted, offered, displayed, answers,
                   fixRequested, content, saved>>

FixResponds == FixSettlesWith({FenceExample})

\* mutant: the edit replaces the document by the raw text of the response
ApplyEditRawText ==
    /\ pc = "edit"
    /\ content' = [content EXCEPT ![cursor] = "fixed"]
    /\ saved' = fix.text
    /\ fix' = NoFix
    /\ ApplyFixesReturns
    /\ FileEnds
    /\ UNCHANGED <<applyAll, cancelRequested, cancelSeenAt>>
    /\ UNCHANGED runVars
    /\ UNCHANGED loopVars
    /\ UNCHANGED <<review, reviewed, skipLog, opened, contacted, offered, displayed, answers,
                   fixRequested, fixFailed>>

\* edit.replace(uri, fullRange, fixedCode); applyEdit and save settle;
\* applyFixesToFile returns
ApplyEdit ==
    /\ pc = "edit"
    /\ content' = [content EXCEPT ![cursor] = "fixed"]
    /\ saved' = fix.fixedCode
    /\ fix' = NoFix
    /\ ApplyFixesReturns
    /\ FileEnds
    /\ UNCHANGED <<applyAll, cancelRequested, cancelSeenAt>>
    /\ UNCHANGED runVars
    /\ UNCHANGED loopVars
    /\ UNCHANGED <<review, reviewed, skipLog, opened, contacted, offered, displayed, answers,
                   fixRequested, fixFailed>>

\* the cancelReview command, from the palette, the status bar or the sidebar
cancelCommand ==
    /\ currentReviewCancellation = "active"
    /\ ~cancelRequested
    /\ cancelRequested' = TRUE
    /\ reviewInProgress' = FALSE
    /\ UNCHANGED <<pc, cursor, reviewedCount, applyAll, currentReviewCancellation,
                   reportedCount, cancelSeenAt>>
    /\ UNCHANGED runVars
    /\ UNCHANGED loopVars
    /\ UNCHANGED histVars

Next ==
    \/ setApiKeyCommand
    \/ StartBatch
    \/ StartPathDirectory
    \/ LoopTop
    \/ OpenDocument
    \/ StartSingle
    \/ StartPathFile
    \/ BeginSingle
    \/ ModelResponds
    \/ ExecuteTool
    \/ PromptAnswered
    \/ SendFixRequest
    \/ FixResponds
    \/ ApplyEdit
    \/ cancelCommand

Spec == Init /\ [][Next]_vars

(***************************************************************************)
(* Overlapping commands.  No command handler tests whether a review is in  *)
(* progress, so a second review command may be issued at any await of the  *)
(* running one.  Of the second run only its cancellation source and its    *)
(* end are modelled.                                                       *)
(***************************************************************************)
\* a run of this model is suspended at an await
RunActive == pc \notin {"idle", "done"}

\* a second review command while a run is active: it creates its own
\* CancellationTokenSource and overwrites currentReviewCancellation
StartOverlapping ==
    /\ RunActive
    /\ ext = "full"
    /\ otherRun = "none"
    /\ otherRun' = "running"
    /\ currentReviewCancellation' = "other"
    /\ reviewInProgress' = TRUE
    /\ UNCHANGED <<ext, rev, workspace, files, mode, nFiles, secret, model, pc, cursor, reviewedCount,
                   applyAll, cancelRequested, reportedCount, cancelSeenAt>>
    /\ UNCHANGED loopVars
    /\ UNCHANGED histVars

\* the second run ends: its cleanup sets currentReviewCancellation = null
OverlappingEnds ==
    /\ otherRun = "running"
    /\ otherRun' = "done"
    /\ currentReviewCancellation' = "null"
    /\ reviewInProgress' = FALSE
    /\ UNCHANGED <<ext, rev, workspace, files, mode, nFiles, secret, model, pc, cursor, reviewedCount,
                   applyAll, cancelRequested, reportedCount, cancelSeenAt>>
    /\ UNCHANGED loopVars
    /\ UNCHANGED histVars

NextOverlap ==
    \/ Next
    \/ StartOverlapping
    \/ OverlappingEnds

SpecOverlap == Init /\ [][NextOverlap]_vars

(***************************************************************************)
(* The sidebar.  Every run reports its start and its end to the sidebar    *)
(* provider, and so does the cancelReview command; Cancel on the progress  *)
(* notification cancels the token of withProgress and reports nothing.     *)
(***************************************************************************)
\* Cancel on the progress notification: the token of withProgress is
\* cancelled, the sidebar is not told
CancelOnNotification ==
    /\ RunActive
    /\ ~cancelRequested
    /\ cancelRequested' = TRUE
    /\ UNCHANGED <<pc, cursor, reviewedCount, applyAll, currentReviewCancellation,
                   reviewInProgress, reportedCount, cancelSeenAt>>
    /\ UNCHANGED runVars
    /\ UNCHANGED loopVars
    /\ UNCHANGED histVars

NextSidebar ==
    \/ Next
    \/ CancelOnNotification

SpecSidebar == Init /\ [][NextSidebar]_vars

(***************************************************************************)
(* One tool-call turn of reviewCode, for every tool name and every shape   *)
(* of arguments the model may send.                                        *)
(***************************************************************************)
ToolNames == KnownTools \cup {"delete_file"}
ToolArgs == {"exists", "missing", "noField", "undefined"}
AllToolCalls == { [name |-> n, args |-> a] : n \in ToolNames, a \in ToolArgs }

\* reviewCode of a single-file review has received its first response,
\* which requests between one and MaxCalls tool calls
InitTools ==
    /\ ext \in {"full", "basic"}
    /\ rev \in {"new", "old"}
    /\ mode = "single"
    /\ pc = "tool"
    /\ nFiles = 1
    /\ cursor = 1
    /\ reviewedCount = 0
    /\ applyAll = FALSE
    /\ currentReviewCancellation = (IF ext = "full" THEN "active" ELSE "null")
    /\ cancelRequested = FALSE
    /\ reviewInProgress = (ext = "full")
    /\ iterations = 1
    /\ sendCount = 1
    /\ \E k \in 1..MaxCalls : \E l \in [1..k -> AllToolCalls] :
          functionCalls = [defined |-> TRUE, list |-> l]
    /\ functionResponses = <<>>
    /\ callIdx = 1
    /\ review = NoReview
    /\ reviewed = {}
    /\ skipLog = <<>>
    /\ opened = {}
    /\ contacted = {1}
    /\ offered = {}
    /\ displayed = {}
    /\ answers = [f \in Files |-> "none"]
    /\ fixRequested = {}
    /\ fixFailed = {}
    /\ fix = NoFix
    /\ workspace = <<>>
    /\ files = <<>>
    /\ content = [f \in Files |-> "orig"]
    /\ appliedLog = {}
    /\ saved = <<>>
    /\ reportedCount = -1
    /\ cancelSeenAt = 0
    /\ secret = "key"
    /\ model = "set"
    /\ otherRun = "none"
    /\ chat = {1}
    /\ outcome = "none"

NextTools == ExecuteTool

SpecTools == InitTools /\ [][NextTools]_vars

(***************************************************************************)
(* parseReview on texts built from heading and content lines.              *)
(***************************************************************************)
\* lines of a review text
LineAssessment == <<"O", "v", "e", "r", "a", "l", "l", " ", "A", "s", "s", "e", "s", "s", "m", "e", "n", "t", ":", " ", "L", "o", "o", "k", "s", " ", "f", "i", "n", "e", ".">>
LineIssuesHeading == <<"I", "s", "s", "u", "e", "s", " ", "F", "o", "u", "n", "d", ":">>
LineIssue == <<"u", "n", "u", "s", "e", "d", " ", "v", "a", "r", "i", "a", "b", "l", "e", " ", "x">>
LineSuggestionsHeading == <<"S", "u", "g", "g", "e", "s", "t", "i", "o", "n", "s", ":">>
LineSuggestion == <<"r", "e", "m", "o", "v", "e", " ", "x">>
LineIssuesInline == <<"I", "s", "s", "u", "e", "s", " ", "F", "o", "u", "n", "d", ":", " ", "l", "e", "a", "k">>
ParserLines ==
    {LineAssessment, LineIssuesHeading, LineIssue, LineSuggestionsHeading,
     LineSuggestion, LineIssuesInline, TextMarkerYes,
     <<>>, <<" ", "o", "k", " ">>}

\* largest number of lines of a combined text
MaxLines == 3

\* lines.join('\n')
RECURSIVE Join(_)
Join(ls) ==
    IF Len(ls) = 0 THEN <<>>
    ELSE IF Len(ls) = 1 THEN ls[1]
    ELSE ls[1] \o <<"\n">> \o Join(Tail(ls))

\* the five-line review text with a heading for each section
RoundTripText ==
    Join(<<LineAssessment, LineIssuesHeading, LineIssue, LineSuggestionsHeading,
           LineSuggestion>>)

\* a text whose issues and suggestions headings each occur twice
RepeatedHeadingsText ==
    Join(<<LineIssuesHeading, LineIssue, LineSuggestionsHeading, LineSuggestion,
           LineIssuesHeading, LineSuggestion, LineSuggestionsHeading, LineIssue>>)

\* a text without summary lines whose character at the fallback length is a
\* line feed
LongText ==
    Join(<<LineIssuesHeading,
           [k \in 1..(SummaryFallbackLen - Len(LineIssuesHeading) - 2) |-> "a"],
           LineIssue>>)

\* the texts handed to the parser
ParserTexts ==
    {RoundTripText, RepeatedHeadingsText, LongText} \cup
    { Join(ls) : ls \in UNION { [1..k -> ParserLines] : k \in 1..MaxLines } }

\* reviewCode of a single-file review awaits the first response
InitParse ==
    /\ ext \in {"full", "basic"}
    /\ rev \in {"new", "old"}
    /\ mode = "single"
    /\ pc = "initial"
    /\ nFiles = 1
    /\ cursor = 1
    /\ reviewedCount = 0
    /\ applyAll = FALSE
    /\ currentReviewCancellation = (IF ext = "full" THEN "active" ELSE "null")
    /\ cancelRequested = FALSE
    /\ reviewInProgress = (ext = "full")
    /\ iterations = 0
    /\ sendCount = 1
    /\ functionCalls = Absent
    /\ functionResponses = <<>>
    /\ callIdx = 0
    /\ review = NoReview
    /\ reviewed = {}
    /\ skipLog = <<>>
    /\ opened = {}
    /\ contacted = {1}
    /\ offered = {}
    /\ displayed = {}
    /\ answers = [f \in Files |-> "none"]
    /\ fixRequested = {}
    /\ fixFailed = {}
    /\ fix = NoFix
    /\ workspace = <<>>
    /\ files = <<>>
    /\ content = [f \in Files |-> "orig"]
    /\ appliedLog = {}
    /\ saved = <<>>
    /\ reportedCount = -1
    /\ cancelSeenAt = 0
    /\ secret = "key"
    /\ model = "set"
    /\ otherRun = "none"
    /\ chat = {1}
    /\ outcome = "none"

\* the first response carries no tool calls: its text is parsed and the
\* review is returned to reviewFile
ParseResponse ==
    /\ pc = "initial"
    /\ \E text \in ParserTexts :
          /\ ReviewCodeEnds("final")
          /\ AfterReview(IF rev = "new" THEN parseReview(Trim(text))
                         ELSE parseReviewOld(text))
    /\ UNCHANGED <<applyAll, cancelRequested, cancelSeenAt>>
    /\ UNCHANGED runVars
    /\ UNCHANGED <<opened, contacted, answers, fixRequested, fixFailed, fix, content, appliedLog, saved>>

NextParse == ParseResponse

SpecParse == InitParse /\ [][NextParse]_vars

(***************************************************************************)
(* generateFixedCode on response texts over a small alphabet.              *)
(***************************************************************************)
\* largest length of a generated response text
MaxFixLen == 6

\* the texts generateContent answers the fix prompt with: the example and
\* every text of grave accents, letters, line feeds and blanks
FixTexts ==
    {FenceExample}
        \cup UNION { [1..k -> {Fence[1], "a", "\n", " "}] : k \in 0..MaxFixLen }

\* applyFixesToFile of a single-file review awaits generateFixedCode
InitFix ==
    /\ ext \in {"full", "basic"}
    /\ rev \in {"new", "old"}
    /\ mode = "single"
    /\ pc = "fix"
    /\ nFiles = 1
    /\ cursor = 1
    /\ reviewedCount = 0
    /\ applyAll = FALSE
    /\ currentReviewCancellation = (IF ext = "full" THEN "active" ELSE "null")
    /\ cancelRequested = FALSE
    /\ reviewInProgress = (ext = "full")
    /\ iterations = 0
    /\ sendCount = 0
    /\ functionCalls = Absent
    /\ functionResponses = <<>>
    /\ callIdx = 0
    /\ review = ParseFinal(TextMarkerYes)
    /\ reviewed = {1}
    /\ skipLog = <<>>
    /\ opened = {}
    /\ contacted = {1}
    /\ offered = {1}
    /\ displayed = {1}
    /\ answers = [f \in Files |-> IF f = 1 THEN "Apply Fixes" ELSE "none"]
    /\ fixRequested = {1}
    /\ fixFailed = {}
    /\ fix = NoFix
    /\ workspace = <<>>
    /\ files = <<>>
    /\ content = [f \in Files |-> "orig"]
    /\ appliedLog = {}
    /\ saved = <<>>
    /\ reportedCount = -1
    /\ cancelSeenAt = 0
    /\ secret = "key"
    /\ model = "set"
    /\ otherRun = "none"
    /\ chat = {1}
    /\ outcome = "final"

\* generateContent settles with any of the texts; the edit is applied
NextFix ==
    \/ FixSettlesWith(FixTexts)
    \/ ApplyEdit

SpecFix == InitFix /\ [][NextFix]_vars

(***************************************************************************)
(* find_file on glob patterns over a small directory tree.                 *)
(***************************************************************************)
\* the directory names _walkDirectory does not descend into when a name
\* contains one of them
HeavyDirNames ==
    {<<"n", "o", "d", "e", "_", "m", "o", "d", "u", "l", "e", "s">>,
     <<".", "g", "i", "t">>,
     <<"d", "i", "s", "t">>,
     <<"b", "u", "i", "l", "d">>,
     <<"c", "o", "v", "e", "r", "a", "g", "e">>,
     <<"v", "e", "n", "v">>,
     <<".", "n", "e", "x", "t">>,
     <<".", "n", "u", "x", "t">>}

\* the depth at which FileScanner.scanDirectory, the other walk of the
\* repository, stops descending; _walkDirectory takes no depth at all
MaxWalkDepth == 20

\* a file that lies MaxWalkDepth + 1 directories below the searched directory
DeepFile == [d \in 1..(MaxWalkDepth + 1) |-> <<"s">>] \o << <<"j", ".", "j", "s">> >>

\* the files below the searched directory, each a path of names
Workspace ==
    {DeepFile,
     <<<<"a", ".", "J", "S", "O", "N">>>>,
     <<<<"a", ".", "j", "s", "o", "n", "c">>>>,
     <<<<"s", "u", "b">>, <<"b", ".", "j", "s", "o", "n">>>>,
     <<<<"r", "e", "b", "u", "i", "l", "d">>, <<"c", ".", "j", "s", "o", "n">>>>,
     <<<<"s", "u", "b">>, <<"a", "j", "s", "o", "n">>>>,
     <<<<"j">>, <<"j", ".", "j">>>>}

\* new RegExp('^' + converted + '$', flags).test(name) for the pattern
\* converted by the replace calls: * is any run, ? is any character, a dot
\* is itself when it was escaped and any character otherwise
RECURSIVE GlobTest(_, _, _, _)
GlobTest(pattern, name, escaped, ignoreCase) ==
    IF pattern = <<>> THEN name = <<>>
    ELSE IF Head(pattern) = "*"
    THEN \E k \in 0..Len(name) :
            GlobTest(Tail(pattern), SubSeq(name, k + 1, Len(name)), escaped, ignoreCase)
    ELSE /\ name # <<>>
         /\ \/ Head(pattern) = "?"
            \/ Head(pattern) = "." /\ ~escaped
            \/ Head(pattern) = Head(name)
            \/ ignoreCase /\ LowerChar(Head(pattern)) = LowerChar(Head(name))
         /\ GlobTest(Tail(pattern), Tail(name), escaped, ignoreCase)

\* GeminiReviewer.findFile on the tree. part_001 walks the tree without the
\* directories it skips and tests the escaped pattern ignoring case;
\* part_002 lists every entry, directories too, and tests the unescaped
\* pattern as written
findFileIn(pattern) ==
    LET walked  == { f \in Workspace :
                       \A d \in 1..(Len(f) - 1) : \A h \in HeavyDirNames :
                           ~Includes(ToLowerCase(f[d]), h) }
        entries == UNION { { SubSeq(f, 1, d) : d \in 1..Len(f) } : f \in Workspace }
    IN  [type |-> "object", success |-> TRUE, error |-> "", pattern |-> pattern,
         matches |-> IF rev = "new"
                     THEN { f \in walked : GlobTest(pattern, f[Len(f)], TRUE, TRUE) }
                     ELSE { f \in entries : GlobTest(pattern, f[Len(f)], FALSE, FALSE) }]

\* largest length of a generated pattern
MaxGlobLen == 3

\* the patterns asked for: "*.json" and every short pattern
GlobPatterns ==
    {<<"*", ".", "j", "s", "o", "n">>}
        \cup UNION { [1..k -> {"*", "?", ".", "j", "s"}] : k \in 1..MaxGlobLen }

\* reviewCode of a single-file review has received its first response,
\* which requests one find_file call
InitFind ==
    /\ ext \in {"full", "basic"}
    /\ rev \in {"new", "old"}
    /\ mode = "single"
    /\ pc = "tool"
    /\ nFiles = 1
    /\ cursor = 1
    /\ reviewedCount = 0
    /\ applyAll = FALSE
    /\ currentReviewCancellation = (IF ext = "full" THEN "active" ELSE "null")
    /\ cancelRequested = FALSE
    /\ reviewInProgress = (ext = "full")
    /\ iterations = 1
    /\ sendCount = 1
    /\ \E pattern \in GlobPatterns :
          functionCalls =
              [defined |-> TRUE,
               list |-> <<[name |-> "find_file", args |-> [pattern |-> pattern]]>>]
    /\ functionResponses = <<>>
    /\ callIdx = 1
    /\ review = NoReview
    /\ reviewed = {}
    /\ skipLog = <<>>
    /\ opened = {}
    /\ contacted = {1}
    /\ offered = {}
    /\ displayed = {}
    /\ answers = [f \in Files |-> "none"]
    /\ fixRequested = {}
    /\ fixFailed = {}
    /\ fix = NoFix
    /\ workspace = <<>>
    /\ files = <<>>
    /\ content = [f \in Files |-> "orig"]
    /\ appliedLog = {}
    /\ saved = <<>>
    /\ reportedCount = -1
    /\ cancelSeenAt = 0
    /\ secret = "key"
    /\ model = "set"
    /\ otherRun = "none"
    /\ chat = {1}
    /\ outcome = "none"

\* executeToolFunction('find_file', args) settles and the result is sent
NextFind ==
    /\ pc = "tool"
    /\ LET call == functionCalls.list[callIdx]
       IN  functionResponses' =
              PushResponse(functionResponses, call, findFileIn(call.args.pattern))
    /\ sendCount' = sendCount + 1
    /\ callIdx' = 0
    /\ Suspend("followup")
    /\ UNCHANGED <<iterations, functionCalls, chat, outcome>>
    /\ UNCHANGED <<applyAll, cancelRequested, cancelSeenAt>>
    /\ UNCHANGED runVars
    /\ UNCHANGED histVars

SpecFind == InitFind /\ [][NextFind]_vars

(***************************************************************************)
(* list_directory on small directories whose entries may fail to stat.     *)
(***************************************************************************)
\* largest number of entries of a listed directory
MaxEntries == 2

\* what readdir and stat can say about one entry: a file, a directory or a
\* symbolic link to a directory; stat settles or throws
DirEntries ==
    [name : {"a", "b", "c"}, kind : {"file", "dir", "link"}, statOk : BOOLEAN,
     size : {0, 1}]

\* the directories asked for: one that cannot be read, and every directory
\* of at most MaxEntries entries with different names
Directories ==
    {[readable |-> FALSE, entries |-> <<>>]} \cup
    { [readable |-> TRUE, entries |-> es] :
        es \in { l \in UNION { [1..k -> DirEntries] : k \in 0..MaxEntries } :
                   \A i, j \in 1..Len(l) : i # j => l[i].name # l[j].name } }

\* mutant: an entry whose stat fails is dropped
listDirectoryDropsFailed(dir) ==
    IF ~dir.readable
    THEN [type |-> "object", success |-> FALSE, error |-> "Cannot list directory"]
    ELSE [type |-> "object", success |-> TRUE, error |-> "", directory |-> dir,
          files |-> LET ok == SelectSeq(dir.entries, LAMBDA e : e.statOk)
                    IN  [k \in 1..Len(ok) |->
                            [name |-> ok[k].name,
                             isDirectory |-> ok[k].kind = "dir",
                             size |-> ok[k].size]]]

\* GeminiReviewer.listDirectory on the directory: one detail per entry, in
\* the order of readdir; isDirectory is the Dirent's in part_001 and the
\* Stats' (which follows links) in part_002
listDirectoryIn(dir) ==
    IF ~dir.readable
    THEN [type |-> "object", success |-> FALSE, error |-> "Cannot list directory"]
    ELSE [type |-> "object", success |-> TRUE, error |-> "", directory |-> dir,
          files |-> [k \in 1..Len(dir.entries) |->
                        LET e == dir.entries[k]
                        IN  IF e.statOk
                            THEN [name |-> e.name,
                                  isDirectory |-> IF rev = "new" THEN e.kind = "dir"
                                                  ELSE e.kind \in {"dir", "link"},
                                  size |-> e.size]
                            ELSE [name |-> e.name, error |-> "Cannot access"]]]

\* reviewCode of a single-file review has received its first response,
\* which requests one list_directory call
InitList ==
    /\ ext \in {"full", "basic"}
    /\ rev \in {"new", "old"}
    /\ mode = "single"
    /\ pc = "tool"
    /\ nFiles = 1
    /\ cursor = 1
    /\ reviewedCount = 0
    /\ applyAll = FALSE
    /\ currentReviewCancellation = (IF ext = "full" THEN "active" ELSE "null")
    /\ cancelRequested = FALSE
    /\ reviewInProgress = (ext = "full")
    /\ iterations = 1
    /\ sendCount = 1
    /\ \E dir \in Directories :
          functionCalls =
              [defined |-> TRUE,
               list |-> <<[name |-> "list_directory", args |-> [dirPath |-> dir]]>>]
    /\ functionResponses = <<>>
    /\ callIdx = 1
    /\ review = NoReview
    /\ reviewed = {}
    /\ skipLog = <<>>
    /\ opened = {}
    /\ contacted = {1}
    /\ offered = {}
    /\ displayed = {}
    /\ answers = [f \in Files |-> "none"]
    /\ fixRequested = {}
    /\ fixFailed = {}
    /\ fix = NoFix
    /\ workspace = <<>>
    /\ files = <<>>
    /\ content = [f \in Files |-> "orig"]
    /\ appliedLog = {}
    /\ saved = <<>>
    /\ reportedCount = -1
    /\ cancelSeenAt = 0
    /\ secret = "key"
    /\ model = "set"
    /\ otherRun = "none"
    /\ chat = {1}
    /\ outcome = "none"

\* executeToolFunction('list_directory', args) settles and the result is sent
NextList ==
    /\ pc = "tool"
    /\ LET call == functionCalls.list[callIdx]
       IN  functionResponses' =
              PushResponse(functionResponses, call, listDirectoryIn(call.args.dirPath))
    /\ sendCount' = sendCount + 1
    /\ callIdx' = 0
    /\ Suspend("followup")
    /\ UNCHANGED <<iterations, functionCalls, chat, outcome>>
    /\ UNCHANGED <<applyAll, cancelRequested, cancelSeenAt>>
    /\ UNCHANGED runVars
    /\ UNCHANGED histVars

SpecList == InitList /\ [][NextList]_vars

(***************************************************************************)
(* FileScanner and the scan of reviewWorkspace.                            *)
(***************************************************************************)
DEFAULT_EXCLUDE_PATTERNS ==
    {<<"*", "*", "/", "n", "o", "d", "e", "_", "m", "o", "d", "u", "l", "e", "s", "/", "*", "*">>,
     <<"*", "*", "/", "d", "i", "s", "t", "/", "*", "*">>,
     <<"*", "*", "/", "b", "u", "i", "l", "d", "/", "*", "*">>,
     <<"*", "*", "/", ".", "g", "i", "t", "/", "*", "*">>,
     <<"*", "*", "/", ".", "e", "n", "v", "*">>,
     <<"*", "*", "/", "p", "a", "c", "k", "a", "g", "e", "-", "l", "o", "c", "k", ".", "j", "s", "o", "n">>,
     <<"*", "*", "/", "y", "a", "r", "n", ".", "l", "o", "c", "k">>,
     <<"*", "*", "/", "p", "n", "p", "m", "-", "l", "o", "c", "k", ".", "y", "a", "m", "l">>,
     <<"*", "*", "/", "*", ".", "m", "i", "n", ".", "j", "s">>,
     <<"*", "*", "/", "*", ".", "m", "i", "n", ".", "c", "s", "s">>,
     <<"*", "*", "/", "*", ".", "b", "u", "n", "d", "l", "e", ".", "j", "s">>,
     <<"*", "*", "/", ".", "v", "s", "c", "o", "d", "e", "/", "*", "*">>,
     <<"*", "*", "/", ".", "i", "d", "e", "a", "/", "*", "*">>,
     <<"*", "*", "/", "c", "o", "v", "e", "r", "a", "g", "e", "/", "*", "*">>,
     <<"*", "*", "/", ".", "n", "e", "x", "t", "/", "*", "*">>,
     <<"*", "*", "/", ".", "n", "u", "x", "t", "/", "*", "*">>,
     <<"*", "*", "/", "o", "u", "t", "/", "*", "*">>,
     <<"*", "*", "/", "_", "_", "p", "y", "c", "a", "c", "h", "e", "_", "_", "/", "*", "*">>,
     <<"*", "*", "/", "*", ".", "p", "y", "c">>,
     <<"*", "*", "/", "v", "e", "n", "v", "/", "*", "*">>,
     <<"*", "*", "/", "e", "n", "v", "/", "*", "*">>}

DEFAULT_INCLUDED_EXTENSIONS ==
    {<<".", "j", "s">>,
     <<".", "j", "s", "x">>,
     <<".", "t", "s">>,
     <<".", "t", "s", "x">>,
     <<".", "h", "t", "m", "l">>,
     <<".", "c", "s", "s">>,
     <<".", "l", "e", "s", "s">>,
     <<".", "j", "s", "o", "n">>,
     <<".", "v", "u", "e">>,
     <<".", "p", "y">>,
     <<".", "j", "a", "v", "a">>,
     <<".", "c", "p", "p">>,
     <<".", "c">>}

\* FileScanner.patternToRegex from position i on, for the shapes of pattern
\* that occur in the default list. The regular expression is a sequence of
\* atoms, c a character or "ANY", each taken once ("one") or any number of
\* times ("star"). A segment ** becomes ANY star. No replace call escapes
\* the * of a pattern, so the later replace of an escaped * finds nothing
\* and the * reaches the expression as the quantifier of the atom before
\* it; every other character stands for itself.
RECURSIVE patternToRegex(_, _, _)
patternToRegex(pattern, i, atoms) ==
    IF i > Len(pattern) THEN atoms
    ELSE IF /\ pattern[i] = "*"
            /\ i < Len(pattern) /\ pattern[i + 1] = "*"
            /\ i = 1 \/ pattern[i - 1] = "/"
            /\ i + 1 = Len(pattern) \/ pattern[i + 2] = "/"
    THEN patternToRegex(pattern, i + 2, Append(atoms, [c |-> "ANY", q |-> "star"]))
    ELSE IF pattern[i] = "*" /\ atoms # <<>>
    THEN patternToRegex(pattern, i + 1, [atoms EXCEPT ![Len(atoms)].q = "star"])
    ELSE patternToRegex(pattern, i + 1, Append(atoms, [c |-> pattern[i], q |-> "one"]))

\* RegExp.prototype.test of an anchored, case-insensitive expression
RECURSIVE RegexTest(_, _)
RegexTest(atoms, str) ==
    IF atoms = <<>> THEN str = <<>>
    ELSE LET h == Head(atoms)
         IN  IF h.q = "star"
             THEN \E k \in 0..Len(str) :
                     /\ \A j \in 1..k :
                            h.c = "ANY" \/ LowerChar(h.c) = LowerChar(str[j])
                     /\ RegexTest(Tail(atoms), SubSeq(str, k + 1, Len(str)))
             ELSE /\ str # <<>>
                  /\ h.c = "ANY" \/ LowerChar(h.c) = LowerChar(Head(str))
                  /\ RegexTest(Tail(atoms), Tail(str))

\* path.join of the names of a path below the file system root
RECURSIVE PathString(_)
PathString(f) ==
    IF f = <<>> THEN <<>> ELSE <<"/">> \o Head(f) \o PathString(Tail(f))

\* FileScanner.matchPattern
matchPattern(filePath, pattern) ==
    RegexTest(patternToRegex(pattern, 1, <<>>), PathString(filePath))

\* FileScanner.shouldReviewFile with the default configuration
shouldReviewFile(filePath) ==
    LET name   == ToLowerCase(filePath[Len(filePath)])
        dots   == { k \in 2..Len(name) : name[k] = "." }
        ext_   == IF dots = {} THEN <<>>
                  ELSE SubSeq(name, CHOOSE k \in dots : \A j \in dots : j <= k, Len(name))
    IN  /\ \A pattern \in DEFAULT_EXCLUDE_PATTERNS : ~matchPattern(filePath, pattern)
        /\ ext_ \in DEFAULT_INCLUDED_EXTENSIONS
        /\ name \notin {<<"p", "a", "c", "k", "a", "g", "e", "-", "l", "o", "c", "k", ".", "j", "s", "o", "n">>,
                         <<"y", "a", "r", "n", ".", "l", "o", "c", "k">>,
                         <<"p", "n", "p", "m", "-", "l", "o", "c", "k", ".", "y", "a", "m", "l">>,
                         <<".", "g", "i", "t", "i", "g", "n", "o", "r", "e">>,
                         <<".", "e", "s", "l", "i", "n", "t", "r", "c">>,
                         <<".", "p", "r", "e", "t", "t", "i", "e", "r", "r", "c">>}

\* FileScanner.scanDirectory(dirPath, null, maxFiles, 0) on the tree: a
\* directory is entered when it is at most 20 levels below dirPath, its name
\* contains none of the skipped names and its path matches no exclude
\* pattern; the files of an entered directory are filtered by the exclude
\* patterns and shouldReviewFile until maxFiles are collected
scanDirectory(tree, maxFiles) ==
    LET keep(f) ==
            /\ Len(f) - 2 <= 20
            /\ \A d \in 2..(Len(f) - 1) :
                  /\ \A h \in HeavyDirNames : ~Includes(ToLowerCase(f[d]), h)
                  /\ \A pattern \in DEFAULT_EXCLUDE_PATTERNS :
                        ~matchPattern(SubSeq(f, 1, d), pattern)
            /\ shouldReviewFile(f)
        kept == SelectSeq(tree, keep)
    IN  SubSeq(kept, 1, IF Len(kept) < maxFiles THEN Len(kept) ELSE maxFiles)

\* part_000: scanDirectoryFallback(dirPath, maxFiles)
scanDirectoryFallback(tree, maxFiles) ==
    LET keep(f) ==
            /\ \A d \in 2..(Len(f) - 1) :
                  \A h \in {<<"n", "o", "d", "e", "_", "m", "o", "d", "u", "l", "e", "s">>, <<".", "g", "i", "t">>, <<"d", "i", "s", "t">>, <<"b", "u", "i", "l", "d">>} :
                      ~Includes(ToLowerCase(f[d]), h)
            /\ shouldReviewFile(f)
        kept == SelectSeq(tree, keep)
    IN  SubSeq(kept, 1, IF Len(kept) < maxFiles THEN Len(kept) ELSE maxFiles)

\* files the projects are made of, below the workspace folder /w
PathPool ==
    <<<<<<"w">>, <<"a", ".", "j", "s">>>>,
      <<<<"w">>, <<"A", ".", "J", "S">>>>,
      <<<<"w">>, <<"a", ".", "t", "x", "t">>>>,
      <<<<"w">>, <<"a", ".", "m", "i", "n", ".", "j", "s">>>>,
      <<<<"w">>, <<"a", ".", "b", "u", "n", "d", "l", "e", ".", "j", "s">>>>,
      <<<<"w">>, <<".", "e", "n", "v">>>>,
      <<<<"w">>, <<".", "e", "n", "v", ".", "j", "s">>>>,
      <<<<"w">>, <<"p", "a", "c", "k", "a", "g", "e", "-", "l", "o", "c", "k", ".", "j", "s", "o", "n">>>>,
      <<<<"w">>, <<"n", "o", "d", "e", "_", "m", "o", "d", "u", "l", "e", "s">>, <<"a", ".", "j", "s">>>>,
      <<<<"w">>, <<"s", "r", "c">>, <<"d", "i", "s", "t">>, <<"a", ".", "t", "s">>>>,
      <<<<"w">>, <<"b", "u", "i", "l", "d">>, <<"a", ".", "p", "y">>>>,
      <<<<"w">>, <<"o", "u", "t">>, <<"a", ".", "j", "s">>>>,
      <<<<"w">>, <<"d", "i", "s", "t", "r", "i", "b", "u", "t", "i", "o", "n">>, <<"a", ".", "j", "s">>>>>>

\* largest number of pool files in a generated project
MaxProjectFiles == 2

\* the projects: every choice of at most MaxProjectFiles pool files, a
\* project of 51 files a1.js .. in the workspace folder, and one file 21
\* directories down
Projects ==
    { SelectSeq(PathPool, LAMBDA f : f \in chosen) :
        chosen \in { c \in SUBSET { PathPool[k] : k \in 1..Len(PathPool) } :
                       Cardinality(c) <= MaxProjectFiles } }
    \cup { [k \in 1..51 |->
              <<<<"w">>,
                <<LowerCase[((k - 1) \div 8) + 1], LowerCase[((k - 1) % 8) + 1],
                  ".", "j", "s">>>>] }
    \cup { <<[k \in 1..23 |->
                IF k = 1 THEN <<"w">> ELSE IF k = 23 THEN <<"a", ".", "j", "s">> ELSE <<"d">>]>> }

\* the extension is active, a key is stored, no command has run
InitScan ==
    /\ workspace \in Projects
    /\ files = <<>>
    /\ ext \in {"full", "basic"}
    /\ rev \in {"new", "old"}
    /\ mode = "idle"
    /\ pc = "idle"
    /\ nFiles = 0
    /\ cursor = 0
    /\ reviewedCount = 0
    /\ applyAll = FALSE
    /\ currentReviewCancellation = "null"
    /\ cancelRequested = FALSE
    /\ reviewInProgress = FALSE
    /\ iterations = 0
    /\ sendCount = 0
    /\ functionCalls = Absent
    /\ functionResponses = <<>>
    /\ callIdx = 0
    /\ review = NoReview
    /\ reviewed = {}
    /\ skipLog = <<>>
    /\ opened = {}
    /\ contacted = {}
    /\ offered = {}
    /\ displayed = {}
    /\ answers = [f \in Files |-> "none"]
    /\ fixRequested = {}
    /\ fixFailed = {}
    /\ fix = NoFix
    /\ content = [f \in Files |-> "orig"]
    /\ appliedLog = {}
    /\ saved = <<>>
    /\ reportedCount = -1
    /\ cancelSeenAt = 0
    /\ secret = "key"
    /\ model = "set"
    /\ otherRun = "none"
    /\ chat = {}
    /\ outcome = "none"

\* reviewWorkspace, up to the for loop, with the scan carried out:
\* scanWorkspace collects at most 50 files; part_000 falls back to
\* scanDirectoryFallback with 2000 when that list is empty; an empty list
\* ends the command
NextScan ==
    /\ pc = "idle"
    /\ LET scanned == scanDirectory(workspace, 50)
           list    == IF ext = "full" /\ scanned = <<>>
                      THEN scanDirectoryFallback(workspace, 2000)
                      ELSE scanned
       IN  /\ files' = list
           /\ nFiles' = Len(list)
           /\ IF list = <<>>
              THEN pc' = "done"
                   /\ UNCHANGED <<mode, cursor, currentReviewCancellation,
                                  reviewInProgress>>
              ELSE /\ mode' = "batch"
                   /\ pc' = "loopTop"
                   /\ cursor' = 1
                   /\ currentReviewCancellation' =
                          (IF ext = "full" THEN "active" ELSE "null")
                   /\ reviewInProgress' = (ext = "full")
    /\ UNCHANGED <<ext, rev, workspace, otherRun, secret, model, reviewedCount, applyAll,
                   cancelRequested, reportedCount, cancelSeenAt>>
    /\ UNCHANGED loopVars
    /\ UNCHANGED histVars

SpecScan == InitScan /\ [][NextScan]_vars

(***************************************************************************)
(* Properties                                                              *)
(***************************************************************************)
\* a reviewCode invocation is suspended at one of its awaits
InReviewCode == pc \in {"initial", "tool", "followup"}

\* the longest list of tool calls of one response
MaxTurnCalls == IF MaxCalls > MaxBatchCalls THEN MaxCalls ELSE MaxBatchCalls

\* the cap of the reviewer revision in use
Cap == IF rev = "new" THEN maxIterations ELSE maxIterationsOld

\* an upper bound of the steps the current reviewCode invocation has left
Rank ==
    (Cap - iterations) * (MaxTurnCalls + 1) + 1
    + (IF pc = "tool" THEN Len(functionCalls.list) - callIdx + 1 ELSE 0)

\* C1: whatever the model answers (tool calls in every response included),
\* one reviewCode invocation sends at most the initial request plus 6
\* follow-up requests, and every step of the invocation strictly decreases
\* a non-negative measure, so the invocation ends after boundedly many
\* steps (it returns the parsed review, or rethrows a transport error).
C1_CapEnforced ==
    [][ /\ sendCount' <= 1 + 6
        /\ iterations' <= 6
        /\ InReviewCode' => Rank' >= 1
        /\ (InReviewCode /\ InReviewCode' /\ <<pc, loopVars>>' # <<pc, loopVars>>)
              => Rank' < Rank ]_vars

\* C1 witness: the sixth follow-up request is in flight
C1_Witness ==
    pc = "followup" /\ iterations = 6 /\ sendCount = 7 /\ Len(functionCalls.list) > 0

\* the first n results answer the first n calls, in order
ResultsMatchCalls(n) ==
    /\ Len(functionResponses) = n
    /\ \A k \in 1..n : functionResponses[k].name = functionCalls.list[k].name

\* C2: in a tool-call turn every call executed so far has exactly one
\* result (failed calls included); while calls are still executing the
\* follow-up request of the turn has not been sent; and the follow-up
\* request in flight carries as many results as the turn had calls.
C2_OneResultPerCall ==
    /\ pc = "tool" =>
          /\ ResultsMatchCalls(callIdx - 1)
          /\ callIdx <= Len(functionCalls.list)
          /\ sendCount = iterations
    /\ pc = "followup" =>
          /\ ResultsMatchCalls(Len(functionCalls.list))
          /\ sendCount = iterations + 1

\* C2 witness: a follow-up is in flight for a turn of two calls, one failed
C2_Witness ==
    /\ pc = "followup"
    /\ Len(functionCalls.list) = 2
    /\ Len(functionResponses) = 2
    /\ \E k \in 1..2 : ~functionResponses[k].result.success
    /\ \E k \in 1..2 : functionResponses[k].result.success

\* reviewCode has returned a review that is still held
HasReview == review # NoReview

\* the file the held review belongs to
LastReviewed == CHOOSE f \in reviewed : \A g \in reviewed : g <= f

\* the union rule: the parser's flag, or a non-empty suggestions list
UnionRule(r) == r.canAutoFix \/ r.suggestions # <<>>

\* C3 (as claimed): once cancellation is signalled, no further review
\* request (initial or follow-up) is sent and reviewCode produces no Review.
C3_NoRequestAfterCancel ==
    [][ cancelRequested =>
          /\ sendCount' <= sendCount
          /\ review' # review => review' = NoReview ]_vars

\* the files of a batch whose iteration is over
Completed == 1..(cursor - 1)

\* the completed files whose open or review threw
Failing == { f \in Completed : f \notin reviewed }

\* C4: in a batch, whichever files throw on open or in the model review,
\* every failing file has exactly one entry in the skip log (in file
\* order), reviewedCount is the number of files whose review returned, the
\* final report shows that number, and a batch that is not cancelled
\* visits every file.
C4_FailuresSkipped ==
    mode = "batch" =>
        /\ reviewedCount = Cardinality(reviewed \cap Completed)
        /\ Len(skipLog) = Cardinality(Failing)
        /\ \A f \in Failing : \E k \in 1..Len(skipLog) : skipLog[k] = f
        /\ \A j, k \in 1..Len(skipLog) : j < k => skipLog[j] < skipLog[k]
        /\ pc = "done" =>
              /\ reportedCount = Cardinality(reviewed)
              /\ ~cancelRequested => cursor = nFiles + 1

\* C4 witness: 3 files, file 2 throws on open, the report says 2
C4_Witness ==
    /\ mode = "batch" /\ pc = "done" /\ nFiles = 3
    /\ skipLog = <<2>> /\ 2 \notin opened
    /\ reviewed = {1, 3}
    /\ reportedCount = 2

\* no document was opened and no request was sent for the files from k on
Untouched(k) ==
    \A f \in k..MaxFiles :
        f \notin opened /\ f \notin contacted /\ f \notin fixRequested

\* C5 (as claimed): a cancellation seen at the loop head of file k+1 leaves
\* files k+1..n untouched and the final report states exactly k files.
C5_ReportsCompleted ==
    (mode = "batch" /\ pc = "done" /\ cancelSeenAt > 0) =>
        /\ Untouched(cancelSeenAt)
        /\ reportedCount = cancelSeenAt - 1

\* C5 (amended): a cancellation seen at the loop head of file k+1 ends the
\* batch with files k+1..n untouched, and the final report states the
\* number of the first k files whose review returned: k minus the number of
\* skipped files.
C5_ReportsReviewed ==
    (mode = "batch" /\ cancelSeenAt > 0) =>
        /\ pc = "done"
        /\ Untouched(cancelSeenAt)
        /\ reviewed \subseteq 1..(cancelSeenAt - 1)
        /\ reportedCount = Cardinality(reviewed)
        /\ reportedCount = (cancelSeenAt - 1) - Len(skipLog)

\* C5 witness: cancelled before file 2 of a 3-file batch, one file reported
C5_Witness ==
    /\ mode = "batch" /\ pc = "done" /\ nFiles = 3
    /\ cancelSeenAt = 2
    /\ reportedCount = 1

\* C6 (as claimed): after cancellation of a batch is requested, no model
\* request of any kind is started: no review request and no fix request.
C6_NoOutboundAfterCancel ==
    [][ (mode = "batch" /\ cancelRequested) =>
          /\ sendCount' <= sendCount
          /\ fixRequested' = fixRequested ]_vars

\* C7: a file's content is replaced only after a fix request for it; a fix
\* request is sent only for a file that was offered a fix and whose prompt
\* was answered Apply Fixes or Apply All, or that was not prompted because
\* Apply All was answered for an earlier file; a fix is offered only for a
\* review that is fixable under the union rule; and after Skip, View Only
\* or a dismissed prompt the file is unchanged and no fix request is sent.
C7_ReplacedOnlyOnConsent ==
    /\ \A f \in Files :
        /\ content[f] = "fixed" => f \in fixRequested
        /\ f \in fixRequested =>
              /\ f \in offered /\ f \in reviewed
              /\ \/ answers[f] \in {"Apply Fixes", "Apply All"}
                 \/ /\ answers[f] = "none"
                    /\ \E g \in 1..(f - 1) : answers[g] = "Apply All"
        /\ answers[f] \in {"Skip", "View Only", "undefined"} =>
              content[f] = "orig" /\ f \notin fixRequested
    /\ (HasReview /\ LastReviewed \in offered) => UnionRule(review)

\* C7 witness: one file was skipped and stayed as it was, another replaced
C7_Witness ==
    /\ \E f \in Files : answers[f] = "Skip" /\ content[f] = "orig"
    /\ \E f \in Files : answers[f] = "Apply Fixes" /\ content[f] = "fixed"

C9_UnionRule ==
    (mode = "batch" /\ HasReview) =>
        (LastReviewed \in offered <=>
            (review.canAutoFix \/ Len(review.suggestions) > 0))

\* C9 witness: the marker said no, the suggestions are non-empty, and the
\* file was offered a fix
C9_Witness ==
    /\ mode = "batch" /\ HasReview
    /\ ~review.canAutoFix /\ Len(review.suggestions) > 0
    /\ LastReviewed \in offered

\* C10 (as claimed): every call site that decides on a review, in every
\* revision of extension.js, offers a fix exactly under the union rule.
C10_SameRuleEverywhere ==
    (HasReview /\ ~cancelRequested) =>
        (LastReviewed \in offered <=> UnionRule(review))

\* C11 (as claimed, for the review of a path that is a directory): while
\* no API key is stored, no file of a batch is opened and no review request
\* is sent.
C11_NoCredentialNoReview ==
    secret = "undefined" =>
        /\ contacted = {}
        /\ mode = "batch" => opened = {}

\* the cancellation sources that were created and not yet disposed
OutstandingHandles ==
    (IF RunActive /\ ext = "full" THEN 1 ELSE 0)
    + (IF otherRun = "running" THEN 1 ELSE 0)

\* C12 (as claimed): a review command issued while a run is in progress
\* starts no second run, and there is never more than one outstanding
\* cancellation handle.
C12_SingleActiveRun ==
    /\ ~(RunActive /\ otherRun = "running")
    /\ OutstandingHandles <= 1

\* C13: in a batch the file index never decreases and advances by one file
\* at a time; a document is opened, a review request is started and a fix
\* request is started only for the file at the index, and only once for
\* that file; and when the index advances nothing of the file it leaves is
\* still in flight (the run is back at the loop head with no conversation).
C13_StrictlySequential ==
    [][ mode = "batch" =>
          /\ cursor' \in {cursor, cursor + 1}
          /\ (pc = "open" /\ pc' # "open") =>
                cursor \notin opened /\ opened' \subseteq opened \cup {cursor}
          /\ (pc # "initial" /\ pc' = "initial") =>
                cursor \notin contacted /\ contacted' = contacted \cup {cursor}
          /\ (pc # "fix" /\ pc' = "fix") =>
                /\ cursor \notin fixRequested
                /\ fixRequested' = fixRequested \cup {cursor}
          /\ (pc # "open") => opened' = opened
          /\ (pc' # "initial") => contacted' = contacted
          /\ (pc' # "fix") => fixRequested' = fixRequested
          /\ (cursor' = cursor + 1) =>
                pc' = "loopTop" /\ sendCount' = 0 /\ functionResponses' = <<>>
          /\ opened' \cup contacted' \cup fixRequested' \subseteq 1..cursor' ]_vars

\* C13 witness: a batch of three files ended after reviewing 1, 2, 3
C13_Witness ==
    /\ mode = "batch" /\ pc = "done" /\ nFiles = 3
    /\ contacted = {1, 2, 3} /\ reviewedCount = 3 /\ cursor = 4

\* the file of the latest conversation
LastContacted == CHOOSE f \in contacted : \A g \in contacted : g <= f

\* C14: when a send (initial or follow-up) fails, reviewCode is left with
\* that error: the conversation is over without another request, no Review
\* is returned for the file, no fix is offered or requested for it, a batch
\* logs the file as skipped and a single-file run ends.
C14_SendFailurePropagates ==
    outcome = "threw" =>
        /\ ~InReviewCode
        /\ sendCount = 0 /\ iterations = 0
        /\ review = NoReview
        /\ LastContacted \notin reviewed \cup offered \cup fixRequested
        /\ mode = "batch" =>
              \E k \in 1..Len(skipLog) : skipLog[k] = LastContacted
        /\ mode = "single" => pc = "done"

\* C14 witness: in a batch the review of file 1 returned and a send of the
\* review of file 2 failed
C14_Witness ==
    /\ mode = "batch" /\ outcome = "threw"
    /\ reviewed = {1} /\ contacted = {1, 2} /\ skipLog = <<2>>

\* C16 (as claimed): a follow-up request is in flight only for a response
\* that requested at least one tool call; a response whose functionCalls is
\* absent or empty is followed by no request.
C16_NoCallsNoFollowUp ==
    pc = "followup" => HasCalls(functionCalls)

\* the reviews parseReview yields for the final texts
ParsedTexts == { ParseFinal(t) : t \in Texts }

\* C17: when the loop is left with a response that still requests tool
\* calls, the cap was reached (iterations = cap), none of the pending calls
\* is executed, no further request is sent, reviewCode does not throw and
\* the file gets the Review parsed from that response's text.
C17_CapReturnsLatestText ==
    [][ (outcome' = "capped" /\ outcome # "capped") =>
          /\ pc = "followup" /\ iterations = Cap
          /\ pc' # "tool" /\ functionResponses' = <<>> /\ callIdx' = 0
          /\ sendCount' = 0
          /\ review' \in ParsedTexts
          /\ reviewed' = reviewed \cup {cursor}
          /\ skipLog' = skipLog ]_vars

\* C17 witness: the loop was cut off by the cap and the caller prompts for
\* the fix of the returned review
C17_Witness ==
    /\ outcome = "capped" /\ pc = "prompt"
    /\ HasReview /\ review.canAutoFix

\* what the loop pushes for one call
ResultOf(call) ==
    [name |-> call.name, result |-> executeToolFunction(call.name, call.args)]

\* the first n results are those of the first n calls, in request order
ResultsInOrder(n) ==
    /\ Len(functionResponses) = n
    /\ \A k \in 1..n : functionResponses[k] = ResultOf(functionCalls.list[k])

\* C18: in a tool-call turn the calls are executed in request order and
\* the k-th result sent back is the result of the k-th call; a call that
\* repeats another call of the turn is executed and answered again.
C18_RequestOrder ==
    /\ pc = "tool" => ResultsInOrder(callIdx - 1)
    /\ pc = "followup" => ResultsInOrder(Len(functionCalls.list))

\* C18 witness: a follow-up is in flight for a turn of two equal calls, with
\* two results
C18_Witness ==
    /\ pc = "followup"
    /\ Len(functionCalls.list) = 2
    /\ functionCalls.list[1] = functionCalls.list[2]
    /\ Len(functionResponses) = 2

\* C19: the conversation of a running reviewCode invocation holds turns of
\* its own file only, and it starts with the prompt as its only request.
C19_FreshConversation ==
    InReviewCode =>
        /\ chat = {cursor}
        /\ pc = "initial" =>
              sendCount = 1 /\ iterations = 0 /\ functionResponses = <<>>

\* C19 witness: the third file of a batch is under review after two
\* conversations with tool-call turns
C19_Witness ==
    /\ mode = "batch" /\ cursor = 3 /\ pc = "followup"
    /\ {1, 2} \subseteq contacted
    /\ chat = {3}

\* C15: every call of a turn, whatever its name and arguments, gets a
\* result value (an object or a string, never an exception): an unknown
\* name gets the 'Unknown function' error string, a call without an args
\* object gets the 'Error executing' string, a call whose argument is
\* absent or names nothing readable gets an error result; and the turn
\* goes on to its follow-up request with one result per call.
C15_ToolNeverThrows ==
    /\ pc \in {"tool", "followup"}
    /\ \A k \in 1..Len(functionResponses) :
          LET c == functionCalls.list[k]
              r == functionResponses[k].result
          IN  /\ r.type \in {"object", "string"}
              /\ c.name \notin KnownTools =>
                    /\ r.type = "string" /\ ~r.success
                    /\ r.error = "Error: Unknown function"
              /\ (c.name \in KnownTools /\ c.args = "undefined") =>
                    r.type = "string" /\ ~r.success /\ r.error = "Error executing"
              /\ (c.name \in KnownTools /\ c.args = "noField") =>
                    r.type = "object" /\ ~r.success
              /\ (c.name = "read_file" /\ c.args = "missing") =>
                    r.type = "object" /\ ~r.success
    /\ pc = "followup" =>
          Len(functionResponses) = Len(functionCalls.list) /\ sendCount = 2

\* C15 witness: the follow-up is in flight after an unknown tool and a
\* read_file without args
C15_Witness ==
    /\ pc = "followup"
    /\ Len(functionCalls.list) = 2
    /\ functionCalls.list[1] = [name |-> "delete_file", args |-> "exists"]
    /\ functionCalls.list[2] = [name |-> "read_file", args |-> "undefined"]
    /\ Len(functionResponses) = 2

\* C20 (as claimed): the review parsed from the five-line text has the
\* summary "Looks fine.", the issues ["unused variable x"] and the
\* suggestions ["remove x"].
C20_HeadingLineContentKept ==
    (HasReview /\ review.rawText = RoundTripText) =>
        /\ review.summary = <<"L", "o", "o", "k", "s", " ", "f", "i", "n", "e", ".">>
        /\ review.issues = <<LineIssue>>
        /\ review.suggestions = <<LineSuggestion>>

\* the trimmed lines of a text, as the loop of parseReview sees them
TrimmedLines(text) == [j \in DOMAIN Split(text) |-> Trim(Split(text)[j])]

\* no line of the text is a section heading or an auto-fix marker
NoHeadingLine(text) ==
    \A j \in DOMAIN TrimmedLines(text) :
        LineKind(ToLowerCase(TrimmedLines(text)[j])) = "content"

\* the entries of ls joined by single spaces
RECURSIVE JoinSpaces(_)
JoinSpaces(ls) ==
    IF Len(ls) = 0 THEN <<>>
    ELSE IF Len(ls) = 1 THEN ls[1]
    ELSE ls[1] \o <<" ">> \o JoinSpaces(Tail(ls))

\* C21: parseReview returns a complete Review for every text; for a text
\* without any heading line the issues and suggestions are empty, canAutoFix
\* is false and the summary is the non-blank lines joined by single spaces.
C21_ParseTotal ==
    (HasReview /\ rev = "new") =>
        /\ DOMAIN review = {"summary", "issues", "suggestions", "canAutoFix", "rawText"}
        /\ review.canAutoFix \in BOOLEAN
        /\ NoHeadingLine(review.rawText) =>
              /\ review.issues = <<>>
              /\ review.suggestions = <<>>
              /\ review.canAutoFix = FALSE
              /\ review.summary =
                    JoinSpaces(SelectSeq(TrimmedLines(review.rawText),
                                         LAMBDA l : l # <<>>))

\* a text of two content lines, one of them indented, has been parsed
C21_Witness ==
    /\ HasReview /\ rev = "new"
    /\ NoHeadingLine(review.rawText)
    /\ review.rawText = Join(<<LineIssue, <<>>, <<" ", "o", "k">> >>)
    /\ review.summary = LineIssue \o <<" ", "o", "k">>

\* a is b with entries left out, the remaining ones in the order of b
RECURSIVE IsSubsequence(_, _)
IsSubsequence(a, b) ==
    IF a = <<>> THEN TRUE
    ELSE IF b = <<>> THEN FALSE
    ELSE IF Head(a) = Head(b) THEN IsSubsequence(Tail(a), Tail(b))
    ELSE IsSubsequence(a, Tail(b))

\* C22: the issues and the suggestions of a parsed Review are each a
\* subsequence of the lines of the raw text, in the order of the text, also
\* when a heading occurs several times.
C22_OrderPreserved ==
    HasReview =>
        /\ IsSubsequence(review.issues, TrimmedLines(review.rawText))
        /\ IsSubsequence(review.suggestions, TrimmedLines(review.rawText))

\* the text with repeated headings has been parsed: each list holds two
\* different entries collected under two occurrences of its heading
C22_Witness ==
    /\ HasReview /\ rev = "new"
    /\ review.rawText = RepeatedHeadingsText
    /\ review.issues = <<LineIssue, LineSuggestion>>
    /\ review.suggestions = <<LineSuggestion, LineIssue>>

\* the section in force at line j: that of the last section heading up to j
SectionAt(ls, j) ==
    LET hs == { i \in 1..j :
                  LineKind(ToLowerCase(ls[i])) \in {"summary", "issues", "suggestions"} }
    IN  IF hs = {} THEN "summary"
        ELSE LineKind(ToLowerCase(ls[CHOOSE i \in hs : \A k \in hs : k <= i]))

\* no non-blank content line of the text lies in the summary section
AccumulatesNoSummary(text) ==
    \A j \in DOMAIN TrimmedLines(text) :
        (/\ TrimmedLines(text)[j] # <<>>
         /\ LineKind(ToLowerCase(TrimmedLines(text)[j])) = "content")
            => SectionAt(TrimmedLines(text), j) # "summary"

\* C23 (as claimed): when no summary text is accumulated the summary is the
\* first 200 characters of the raw text.
C23_FallbackFirst200 ==
    (HasReview /\ rev = "new" /\ AccumulatesNoSummary(review.rawText)) =>
        review.summary = Substring0(review.rawText, SummaryFallbackLen)

\* C23 (amended): when no summary text is accumulated the summary is the
\* first 200 characters of the raw text with the white space at both ends
\* removed; it is empty only when those characters are all white space.
C23_FallbackFirst200Trimmed ==
    (HasReview /\ rev = "new" /\ AccumulatesNoSummary(review.rawText)) =>
        /\ review.summary = Trim(Substring0(review.rawText, SummaryFallbackLen))
        /\ review.summary = <<>> =>
              \A k \in 1..Len(Substring0(review.rawText, SummaryFallbackLen)) :
                  review.rawText[k] \in WhiteSpace

\* the long text has been parsed: the summary is one character shorter
\* than the fallback length
C23_Witness ==
    /\ HasReview /\ rev = "new"
    /\ review.rawText = LongText
    /\ AccumulatesNoSummary(review.rawText)
    /\ Len(review.summary) = SummaryFallbackLen - 1

\* C24: the code generateFixedCode returns holds no fence marker and no
\* white space at either end; for the fenced one-line example it is exactly
\* the line.
C24_NoFenceLeft ==
    (pc = "edit") =>
        /\ ~Includes(fix.fixedCode, Fence)
        /\ fix.fixedCode # <<>> =>
              /\ Head(fix.fixedCode) \notin WhiteSpace
              /\ fix.fixedCode[Len(fix.fixedCode)] \notin WhiteSpace
        /\ fix.text = FenceExample =>
              fix.fixedCode = <<"c", "o", "n", "s", "t", " ", "x", "=", "1", ";">>

\* the fenced example has been answered and cleaned
C24_Witness ==
    /\ pc = "edit"
    /\ fix.text = FenceExample
    /\ fix.fixedCode = <<"c", "o", "n", "s", "t", " ", "x", "=", "1", ";">>

\* C25 (as claimed): find_file returns exactly the files below the
\* directory whose basename matches the whole glob, ignoring case, with
\* every character other than * and ? taken literally.
C25_FindFileExact ==
    (pc = "followup" /\ Len(functionResponses) = 1) =>
        functionResponses[1].result.matches =
            { f \in Workspace :
                GlobTest(functionResponses[1].result.pattern, f[Len(f)], TRUE, TRUE) }

\* C26 (as claimed): every file of the project that no exclude pattern
\* matches and whose extension is allow-listed is in the list the batch
\* iterates, whatever the number of files.
C26_AllSupportedListed ==
    (pc \in {"loopTop", "done"}) =>
        \A k \in 1..Len(workspace) :
            shouldReviewFile(workspace[k]) =>
                \E j \in 1..Len(files) : files[j] = workspace[k]

\* C27 (as claimed): the list holds no path under a node_modules, dist or
\* build directory, no .env file, no minified or bundled file, and only
\* files with an included extension.
C27_NoIgnoredListed ==
    (pc \in {"loopTop", "done"}) =>
        \A f \in { files[k] : k \in 1..Len(files) } :
            LET name == ToLowerCase(f[Len(f)])
                EndsWith(sfx) ==
                    Len(sfx) <= Len(name)
                        /\ SubSeq(name, Len(name) - Len(sfx) + 1, Len(name)) = sfx
            IN  /\ \A d \in 1..(Len(f) - 1) :
                      f[d] \notin {<<"n", "o", "d", "e", "_", "m", "o", "d", "u", "l", "e", "s">>, <<"d", "i", "s", "t">>, <<"b", "u", "i", "l", "d">>}
                /\ ~StartsWith(name, <<".", "e", "n", "v">>)
                /\ ~EndsWith(<<".", "m", "i", "n", ".", "j", "s">>)
                /\ ~EndsWith(<<".", "m", "i", "n", ".", "c", "s", "s">>)
                /\ ~EndsWith(<<".", "b", "u", "n", "d", "l", "e", ".", "j", "s">>)
                /\ \E e \in DEFAULT_INCLUDED_EXTENSIONS : EndsWith(e)

\* C28 (as claimed): with the handle of part_000, the global cancellation
\* handle is non-null exactly while a review is in progress, it then is the
\* source of a review that is still running, and once every review command
\* has returned it is null.
C28_HandleTracksReview ==
    ext = "full" =>
        /\ (currentReviewCancellation # "null") <=> (RunActive \/ otherRun = "running")
        /\ currentReviewCancellation = "active" => RunActive
        /\ currentReviewCancellation = "other" => otherRun = "running"

\* C29 (as claimed): with the sidebar of part_000, while a review is
\* executing (a request in flight or files left to process) the sidebar's
\* reviewInProgress is true, also after cancelReview has been invoked.
C29_StatusTracksReview ==
    (ext = "full" /\ RunActive) => reviewInProgress

\* C30 (as claimed): once the stored key has been cleared, the reviewer's
\* client that an earlier key initialised is used for no request: while no
\* key is stored and that client exists, no review request has been sent
\* and none is in flight.
C30_ClearedKeyNotUsed ==
    (secret = "undefined" /\ model = "set") =>
        /\ contacted = {}
        /\ sendCount = 0
        /\ fixRequested = {}

\* C31 (as claimed): in a batch the line 'Applied fixes to <file>' is
\* written for a file only if its fix was generated and its content was
\* replaced; a file whose fix generation failed has no such line.
C31_AppliedMeansApplied ==
    \A f \in appliedLog : content[f] = "fixed" /\ f \notin fixFailed

C34_CancelledResultDiscarded ==
    [][ (mode = "single" /\ ext = "full" /\ cancelRequested /\ InReviewCode) =>
            /\ pc' \in {"initial", "tool", "followup", "done"}
            /\ displayed' = displayed
            /\ offered' = offered
            /\ fixRequested' = fixRequested
            /\ content' = content
            /\ saved' = saved
      ]_vars

\* C34 witness: the review that came back after the cancellation offered a
\* fix, and the run ended without showing it
C34_Witness ==
    /\ mode = "single" /\ ext = "full" /\ pc = "done"
    /\ cancelRequested
    /\ reviewed = {1} /\ FixOffered(review)
    /\ displayed = {} /\ offered = {} /\ fixRequested = {}
    /\ content[1] = "orig"

\* the non-blank content lines of the text that lie in the section, in the
\* order of the text; an auto-fix marker line does not change the section
ContentOf(text, section) ==
    LET ls   == TrimmedLines(text)
        keep == SelectSeq([j \in 1..Len(ls) |-> j],
                          LAMBDA j : /\ ls[j] # <<>>
                                     /\ LineKind(ToLowerCase(ls[j])) = "content"
                                     /\ SectionAt(ls, j) = section)
    IN  [k \in 1..Len(keep) |-> ls[keep[k]]]

\* C35 (as claimed, for both copies of the parser): heading lines, marker
\* lines and blank lines are never appended, and the lines after a marker
\* line go to the section that was current before it: issues and suggestions
\* are exactly the content lines of their sections, and so is a summary that
\* was accumulated.
C35_HeadingsConsumed ==
    HasReview =>
        /\ review.issues = ContentOf(review.rawText, "issues")
        /\ review.suggestions = ContentOf(review.rawText, "suggestions")
        /\ ContentOf(review.rawText, "summary") # <<>> =>
              review.summary = JoinSpaces(ContentOf(review.rawText, "summary"))

\* C36 (as claimed): the walk of find_file of part_001 collects at most 5000
\* files and no file that lies more than a fixed number of directories down.
C36_WalkBounded ==
    (rev = "new" /\ pc = "followup" /\ Len(functionResponses) = 1) =>
        /\ Cardinality(functionResponses[1].result.matches) <= 5000
        /\ \A f \in functionResponses[1].result.matches : Len(f) - 1 <= MaxWalkDepth

\* C37 (as claimed): a file whose basename matches the pattern is left out
\* by part_001 only if one of its ancestor directories is named exactly as
\* one of the skipped directories.
C37_OnlyExactNamesSkipped ==
    (rev = "new" /\ pc = "followup" /\ Len(functionResponses) = 1) =>
        \A f \in Workspace :
            (/\ GlobTest(functionResponses[1].result.pattern, f[Len(f)], TRUE, TRUE)
             /\ f \notin functionResponses[1].result.matches)
                => \E d \in 1..(Len(f) - 1) : f[d] \in HeavyDirNames

\* C38: list_directory on a readable directory succeeds with exactly one
\* detail per directory entry, in the order and under the names of the
\* entries; the detail of an entry whose stat fails is the error marker, and
\* every other entry keeps its size.
C38_OneDetailPerEntry ==
    (pc = "followup" /\ Len(functionResponses) = 1) =>
        LET dir    == functionCalls.list[1].args.dirPath
            result == functionResponses[1].result
        IN  dir.readable =>
              /\ result.success
              /\ Len(result.files) = Len(dir.entries)
              /\ \A k \in 1..Len(dir.entries) :
                    /\ result.files[k].name = dir.entries[k].name
                    /\ IF dir.entries[k].statOk
                       THEN /\ DOMAIN result.files[k] = {"name", "isDirectory", "size"}
                            /\ result.files[k].size = dir.entries[k].size
                       ELSE result.files[k] =
                                [name |-> dir.entries[k].name, error |-> "Cannot access"]

\* C38 witness: of two entries the first could not be accessed and the
\* second is listed with its size
C38_Witness ==
    /\ pc = "followup" /\ Len(functionResponses) = 1
    /\ functionResponses[1].result.success
    /\ functionResponses[1].result.files =
          <<[name |-> "a", error |-> "Cannot access"],
            [name |-> "b", isDirectory |-> FALSE, size |-> 1]>>

====
